---------------------------- MODULE Spec2Model ----------------------------
(***************************************************************************)
(* A model of the property-record analysis programs:                       *)
(*   src/src/utils.py            stream_jsonl, parse_date                  *)
(*   src/src/llm_classifier.py   sampling, accelerant, rule cascade        *)
(*   src/src/pattern_analyzer.py instrument, book/page, date analysers     *)
(* Python strings are TLA+ strings; s[i] is SubSeq(s, i, i).  A Python     *)
(* dict is a function whose DOMAIN is the key set; None is the model       *)
(* value None.                                                             *)
(***************************************************************************)
EXTENDS Integers, Sequences, FiniteSets, TLC

VARIABLES
    \* ---- llm_classifier.create_mapping ----
    records,        \* doc_type of each record streamed from the file (None: absent)
    use_llm,        \* the use_llm argument
    llm_env,        \* "no_openai" | "no_key" | "ready": import and credential
    pc,             \* position in create_mapping
    sampled,        \* sampled_doc_types
    mapping,        \* the partial mapping
    batch_i,        \* the loop variable i of classify_with_llm
    outcomes,       \* history: what the accelerant did for each batch
    output,         \* the mappings written to output_path, in order
    \* ---- llm_classifier.fallback_classification on one string ----
    fc_in,          \* the doc_type string
    fc_out,         \* the mappings returned so far, in order
    \* ---- utils.stream_jsonl ----
    file,           \* the lines of the file
    line_num,       \* lines read so far (0: the file was just opened)
    yielded,        \* the values yielded so far, in order
    warned,         \* line numbers for which a warning was logged
    st_pc,          \* "reading" | "closed" | "idle"
    \* ---- pattern_analyzer.analyze_date_ranges, called by analyze_county_patterns ----
    date_values,    \* the 'date' field of each record of the county
    today,          \* datetime.now() taken at line 173
    dr_i,           \* records processed so far
    dates,          \* the list dates
    anomalies,      \* the list anomalies
    calls,          \* history: the calls of parse_date and how each ended
    dr_result,      \* the dict returned (<<>>: not returned)
    dr_exc,         \* the exception that left analyze_county_patterns ("": none)
    dr_pc,          \* "loop" | "raised" | "returned" | "written" | "idle"
    \* ---- pattern_analyzer.analyze_instrument_patterns ----
    instr_values,       \* the 'instrument_number' field of each record
    instrument_numbers, \* the list instrument_numbers
    ip_i,               \* elements of the current loop processed so far
    pattern_groups,     \* the dict pattern_groups, in insertion order
    ip_result,          \* the lists returned so far (<<>>: not returned)
    ip_pc,              \* "collect" | "group" | "done" | "idle"
    \* ---- pattern_analyzer.analyze_book_page_patterns, called by analyze_county_patterns ----
    bp_records,     \* the 'book' and 'page' fields of each record of the county
    bp_i,           \* records processed so far
    books,          \* the list books
    pages,          \* the list pages
    bp_result,      \* the lists returned so far (<<>>: not returned)
    bp_report,      \* book_patterns and page_patterns of the county's report
    bp_pc,          \* "collect" | "build" | "returned" | "written" | "idle"
    \* ---- pattern_analyzer.analyze_county_patterns ----
    cp_records,     \* the records stream_jsonl yields: county, book, page, date
    cp_i,           \* records read so far
    county_records, \* the dict county_records, in insertion order
    results,        \* the dict results, in insertion order
    cp_output,      \* what was written to output_path (<<>>: nothing)
    cp_exc,         \* the exception that left analyze_county_patterns ("": none)
    cp_pc,          \* "bucket" | "analyze" | "raised" | "written" | "idle"
    \* ---- seminole_scraper.SeminoleScraper.search_by_name ----
    max_retries,    \* the max_retries argument
    attempt,        \* the loop variable attempt
    attempts,       \* history: how each request attempt ended
    sb_result,      \* the list returned (<<>>: not returned)
    sb_exc,         \* the exception raised to the caller ("": none)
    sb_pc           \* "loop" | "returned" | "raised" | "idle"

clsVars == <<records, use_llm, llm_env, pc, sampled, mapping, batch_i, outcomes, output>>
fcVars == <<fc_in, fc_out>>
stVars == <<file, line_num, yielded, warned, st_pc>>
drVars == <<date_values, today, dr_i, dates, anomalies, calls, dr_result, dr_exc, dr_pc>>
ipVars == <<instr_values, instrument_numbers, ip_i, pattern_groups, ip_result, ip_pc>>
bpVars == <<bp_records, bp_i, books, pages, bp_result, bp_report, bp_pc>>
cpVars == <<cp_records, cp_i, county_records, results, cp_output, cp_exc, cp_pc>>
sbVars == <<max_retries, attempt, attempts, sb_result, sb_exc, sb_pc>>
vars == <<clsVars, fcVars, stVars, drVars, ipVars, bpVars, cpVars, sbVars>>

\* what the actions of one component leave alone
notCls == <<fcVars, stVars, drVars, ipVars, bpVars, cpVars, sbVars>>
notFc == <<clsVars, stVars, drVars, ipVars, bpVars, cpVars, sbVars>>
notSt == <<clsVars, fcVars, drVars, ipVars, bpVars, cpVars, sbVars>>
notDr == <<clsVars, fcVars, stVars, ipVars, bpVars, cpVars, sbVars>>
notIp == <<clsVars, fcVars, stVars, drVars, bpVars, cpVars, sbVars>>
notBp == <<clsVars, fcVars, stVars, drVars, ipVars, cpVars, sbVars>>
notCp == <<clsVars, fcVars, stVars, drVars, ipVars, bpVars, sbVars>>
notSb == <<clsVars, fcVars, stVars, drVars, ipVars, bpVars, cpVars>>

None == "<None>"

-----------------------------------------------------------------------------
(* Python str operations *)

UpperChars == "ABCDEFGHIJKLMNOPQRSTUVWXYZ"
LowerChars == "abcdefghijklmnopqrstuvwxyz"
Whitespace == {" ", "\t", "\n", "\r"}

CharAt(s, i) == SubSeq(s, i, i)

\* the lower-case form of each upper-case letter, and the converse
LowerOf == [c \in {CharAt(UpperChars, i) : i \in 1..26} |->
               CharAt(LowerChars, CHOOSE i \in 1..26 : CharAt(UpperChars, i) = c)]
UpperOf == [c \in {CharAt(LowerChars, i) : i \in 1..26} |->
               CharAt(UpperChars, CHOOSE i \in 1..26 : CharAt(LowerChars, i) = c)]

\* str.lower() of one character
LowerChar(c) == IF c \in DOMAIN LowerOf THEN LowerOf[c] ELSE c

\* str.upper() of one character
UpperChar(c) == IF c \in DOMAIN UpperOf THEN UpperOf[c] ELSE c

RECURSIVE Lower(_)
Lower(s) == IF s = "" THEN "" ELSE LowerChar(CharAt(s, 1)) \o Lower(SubSeq(s, 2, Len(s)))

RECURSIVE Upper(_)
Upper(s) == IF s = "" THEN "" ELSE UpperChar(CharAt(s, 1)) \o Upper(SubSeq(s, 2, Len(s)))

RECURSIVE LStrip(_)
LStrip(s) ==
    IF s # "" /\ CharAt(s, 1) \in Whitespace THEN LStrip(SubSeq(s, 2, Len(s))) ELSE s

RECURSIVE RStrip(_)
RStrip(s) ==
    IF s # "" /\ CharAt(s, Len(s)) \in Whitespace THEN RStrip(SubSeq(s, 1, Len(s) - 1)) ELSE s

\* str.strip()
Strip(s) == RStrip(LStrip(s))

\* k in s
Contains(k, s) == \E i \in 1..(Len(s) - Len(k) + 1) : SubSeq(s, i, i + Len(k) - 1) = k

\* s.startswith(k)
StartsWith(s, k) == Len(k) <= Len(s) /\ SubSeq(s, 1, Len(k)) = k

\* any(keyword in s for keyword in ks)
AnyIn(ks, s) == \E k \in ks : Contains(k, s)

-----------------------------------------------------------------------------
(* llm_classifier.py *)

STANDARD_CATEGORIES ==
    {"SALE_DEED", "MORTGAGE", "DEED_OF_TRUST", "RELEASE", "LIEN", "PLAT",
     "EASEMENT", "LEASE", "MISC"}

\* the deed-family branch without its trust test
DeedFamilyNoTrust(dt_lower) ==
    IF Contains("easement", dt_lower) THEN "EASEMENT" ELSE "SALE_DEED"

\* the deed-family branch of the cascade (lines 224-230)
DeedFamily(dt_lower) ==
    IF Contains("trust", dt_lower) \/ Contains("trustee", dt_lower) THEN "DEED_OF_TRUST"
    ELSE IF Contains("easement", dt_lower) THEN "EASEMENT"
    ELSE "SALE_DEED"

\* the assignment branch of the cascade (lines 231-237)
AssignmentFamily(dt_lower) ==
    IF Contains("mortgage", dt_lower) \/ Contains("mtg", dt_lower) THEN "MORTGAGE"
    ELSE IF Contains("trust", dt_lower) \/ Contains("trustee", dt_lower) THEN "DEED_OF_TRUST"
    ELSE "MISC"

\* the if/elif chain of fallback_classification applied to one doc_type
ClassifyOne(doc_type) ==
    LET dt_lower == Strip(Lower(doc_type)) IN
    IF dt_lower \in {"dt", "d/t", "d-t", "d-tr", "d-trust", "sub tr", "subst tr",
                     "substitution trustee"}
        THEN "DEED_OF_TRUST"
    ELSE IF Contains("trust", dt_lower)
            /\ (Contains("deed", dt_lower) \/ StartsWith(dt_lower, "trust"))
        THEN "DEED_OF_TRUST"
    ELSE IF AnyIn({"mortgage", "mtge", "mtg", "morg"}, dt_lower)
        THEN "MORTGAGE"
    ELSE IF AnyIn({"satisfaction", "sat", "certificate of satisfaction"}, dt_lower)
        THEN "RELEASE"
    ELSE IF AnyIn({"cancellation", "can", "cancel"}, dt_lower)
        THEN "RELEASE"
    ELSE IF AnyIn({"release", "rel", "partial release", "rel deed"}, dt_lower)
        THEN "RELEASE"
    ELSE IF Contains("lien", dt_lower) \/ dt_lower \in {"judgment", "judgement"}
        THEN "LIEN"
    ELSE IF AnyIn({"plat", "map plat", "map/r", "map", "subdivision plat"}, dt_lower)
        THEN "PLAT"
    ELSE IF Contains("lease", dt_lower)
        THEN "LEASE"
    ELSE IF AnyIn({"substitute trustee", "substitution trustee", "sub tr", "subst tr"},
                  dt_lower)
        THEN "DEED_OF_TRUST"
    ELSE IF Contains("easement", dt_lower) \/ Contains("right of way", dt_lower)
        THEN "EASEMENT"
    ELSE IF AnyIn({"deed", "warranty", "quitclaim", "grant", "conveyance"}, dt_lower)
        THEN DeedFamily(dt_lower)
    ELSE IF AnyIn({"assignment", "asign", "assign"}, dt_lower)
        THEN AssignmentFamily(dt_lower)
    ELSE IF AnyIn({"power of attorney", "poa"}, dt_lower)
        THEN "MISC"
    ELSE IF AnyIn({"notice", "request notice", "see instrument"}, dt_lower)
        THEN "MISC"
    ELSE "MISC"

\* the set of elements of a list
Range(s) == {s[i] : i \in 1..Len(s)}

\* fallback_classification(doc_types): a dict with one entry per listed value
fallback_classification(doc_types) ==
    [dt \in Range(doc_types) |-> ClassifyOne(dt)]

-----------------------------------------------------------------------------
(* Bounds.  sample_size, top_n and batch_size are the source's 200, 50 and *)
(* 50 (llm_classifier.py lines 263, 71, 140) scaled down so that a small   *)
(* dataset exceeds the sampling threshold and spans several batches.       *)

MaxRecords == 4
sample_size == 2
top_n == 1
batch_size == 1

\* doc_type values a record may carry; None and "" are both falsy
DocTypeValues == {"WARRANTY DEED", "DEED OF TRUST", "MTG ASSIGNMENT", "xyz", "", None}

\* lines an accelerant response may hold
ResponseLines == {" mortgage ", "1. LIEN"}

-----------------------------------------------------------------------------
(* sample_doc_types_strategically *)

Min(a, b) == IF a < b THEN a ELSE b

\* Counter keys after counting the truthy doc_types: first-occurrence order
RECURSIVE CounterKeys(_)
CounterKeys(recs) ==
    IF recs = <<>> THEN <<>>
    ELSE LET prev == CounterKeys(SubSeq(recs, 1, Len(recs) - 1))
             last == recs[Len(recs)]
         IN IF last # None /\ last # "" /\ last \notin Range(prev)
            THEN Append(prev, last) ELSE prev

\* doc_type_counter[v]
CounterValue(recs, v) == Cardinality({i \in DOMAIN recs : recs[i] = v})

\* a sort that leaves the keys in their first-occurrence order
SortedByCountUnsorted(keys, recs) == keys

\* sorted(keys, key=count, reverse=True): stable, so ties keep their order
RECURSIVE SortedByCount(_, _)
SortedByCount(keys, recs) ==
    IF keys = <<>> THEN <<>>
    ELSE LET best == CHOOSE i \in DOMAIN keys :
                        /\ \A j \in DOMAIN keys :
                              CounterValue(recs, keys[j]) <= CounterValue(recs, keys[i])
                        /\ \A j \in 1..(i - 1) :
                              CounterValue(recs, keys[j]) < CounterValue(recs, keys[i])
             rest == [j \in 1..(Len(keys) - 1) |-> IF j < best THEN keys[j] ELSE keys[j + 1]]
         IN <<keys[best]>> \o SortedByCount(rest, recs)

\* [x for x in s if x not in t]
Without(s, t) == SelectSeq(s, LAMBDA x : x \notin Range(t))

\* the lists random.sample(population, k) can return
RandomSample(population, k) ==
    {s \in [1..k -> Range(population)] : \A i, j \in 1..k : i # j => s[i] # s[j]}

\* the lists sample_doc_types_strategically can return
SampleResults(recs) ==
    LET unique_doc_types == CounterKeys(recs)
        sorted_types == SortedByCount(unique_doc_types, recs)
        top == SubSeq(sorted_types, 1, Min(top_n, Len(sorted_types)))
        remaining == Without(unique_doc_types, top)
    IN IF Len(unique_doc_types) <= sample_size THEN {unique_doc_types}
       ELSE IF Len(top) < sample_size
            THEN {top \o additional :
                    additional \in RandomSample(remaining,
                                       Min(sample_size - Len(top), Len(remaining)))}
            ELSE {top}

-----------------------------------------------------------------------------
(* classify_with_llm *)

\* s.split('\n')
RECURSIVE SplitLines(_)
SplitLines(s) ==
    IF ~Contains("\n", s) THEN <<s>>
    ELSE LET i == CHOOSE k \in 1..Len(s) :
                    CharAt(s, k) = "\n" /\ \A m \in 1..(k - 1) : CharAt(s, m) # "\n"
         IN <<SubSeq(s, 1, i - 1)>> \o SplitLines(SubSeq(s, i + 1, Len(s)))

\* "\n".join(lines)
RECURSIVE JoinLines(_)
JoinLines(lines) ==
    IF lines = <<>> THEN ""
    ELSE IF Len(lines) = 1 THEN lines[1]
    ELSE lines[1] \o "\n" \o JoinLines(Tail(lines))

\* the response contents the accelerant may give for a batch of n values:
\* up to n lines, so lines may be missing
ResponseContents(n) ==
    {JoinLines(ls) : ls \in UNION {[1..k -> ResponseLines] : k \in 0..n}}

\* doc_types[i:i+batch_size], i counted from 0
Batch(doc_types, i) == SubSeq(doc_types, i + 1, Min(i + batch_size, Len(doc_types)))

\* the label stored without validating it against STANDARD_CATEGORIES
ParsedLabelUnvalidated(content, j) ==
    LET lines == SplitLines(Strip(content)) IN
    IF j <= Len(lines) THEN Upper(Strip(lines[j])) ELSE "MISC"

\* the label stored for position j (from 1) of a batch, lines 161-169
ParsedLabel(content, j) ==
    LET lines == SplitLines(Strip(content)) IN
    IF j <= Len(lines)
    THEN LET category == Upper(Strip(lines[j])) IN
         IF category \in STANDARD_CATEGORIES THEN category ELSE "MISC"
    ELSE "MISC"

\* m with the entries of the dict d added or overwritten
Update(m, d) ==
    [k \in DOMAIN m \cup DOMAIN d |-> IF k \in DOMAIN d THEN d[k] ELSE m[k]]

\* the mapping after a batch whose request succeeded (lines 158-169)
AfterBatchOk(m, batch, content) ==
    Update(m, [dt \in Range(batch) |->
                 ParsedLabel(content, CHOOSE j \in DOMAIN batch : batch[j] = dt)])

\* a handler that starts the mapping over with the failed batch alone
AfterBatchErrorReset(m, batch) ==
    [dt \in Range(batch) |-> fallback_classification(<<dt>>)[dt]]

\* the mapping after a batch whose request raised (lines 177-180)
AfterBatchError(m, batch) ==
    Update(m, [dt \in Range(batch) |-> fallback_classification(<<dt>>)[dt]])

EmptyDict == [k \in {} |-> "MISC"]

-----------------------------------------------------------------------------
(* create_mapping *)

\* line 263
Sample ==
    /\ pc = "start"
    /\ \E s \in SampleResults(records) : sampled' = s
    /\ pc' = "sampled"
    /\ UNCHANGED <<records, use_llm, llm_env, mapping, batch_i, outcomes, output, notCls>>

\* lines 272-274
ClassifyRuleBased ==
    /\ pc = "sampled" /\ ~use_llm
    /\ mapping' = fallback_classification(sampled)
    /\ pc' = "classified"
    /\ UNCHANGED <<records, use_llm, llm_env, sampled, batch_i, outcomes, output, notCls>>

\* classify_with_llm raises before its loop (openai cannot be imported,
\* lines 100-104); create_mapping catches it (lines 269-271)
LLMUnavailable ==
    /\ pc = "sampled" /\ use_llm /\ llm_env = "no_openai"
    /\ mapping' = fallback_classification(sampled)
    /\ pc' = "classified"
    /\ UNCHANGED <<records, use_llm, llm_env, sampled, batch_i, outcomes, output, notCls>>

\* no credential: classify_with_llm returns the cascade's mapping (lines 110-112)
LLMNoKey ==
    /\ pc = "sampled" /\ use_llm /\ llm_env = "no_key"
    /\ mapping' = fallback_classification(sampled)
    /\ pc' = "classified"
    /\ UNCHANGED <<records, use_llm, llm_env, sampled, batch_i, outcomes, output, notCls>>

\* lines 114-141
LLMStart ==
    /\ pc = "sampled" /\ use_llm /\ llm_env = "ready"
    /\ mapping' = EmptyDict
    /\ batch_i' = 0
    /\ pc' = "llm_loop"
    /\ UNCHANGED <<records, use_llm, llm_env, sampled, outcomes, output, notCls>>

\* one iteration of the loop whose request succeeds (lines 144-175)
BatchOk ==
    /\ pc = "llm_loop" /\ batch_i < Len(sampled)
    /\ LET batch == Batch(sampled, batch_i) IN
       \E content \in ResponseContents(Len(batch)) :
          /\ mapping' = AfterBatchOk(mapping, batch, content)
          /\ outcomes' = Append(outcomes, [batch |-> batch, ok |-> TRUE, content |-> content])
    /\ batch_i' = batch_i + batch_size
    /\ UNCHANGED <<records, use_llm, llm_env, pc, sampled, output, notCls>>

\* one iteration of the loop in which the try block raises, at the request
\* or after the labels were stored (line 171): the handler maps the whole
\* batch by the cascade
BatchError ==
    /\ pc = "llm_loop" /\ batch_i < Len(sampled)
    /\ LET batch == Batch(sampled, batch_i) IN
          /\ mapping' = AfterBatchError(mapping, batch)
          /\ outcomes' = Append(outcomes, [batch |-> batch, ok |-> FALSE, content |-> ""])
    /\ batch_i' = batch_i + batch_size
    /\ UNCHANGED <<records, use_llm, llm_env, pc, sampled, output, notCls>>

\* the loop ends and classify_with_llm returns (lines 182-183)
LLMReturn ==
    /\ pc = "llm_loop" /\ batch_i >= Len(sampled)
    /\ pc' = "classified"
    /\ UNCHANGED <<records, use_llm, llm_env, sampled, mapping, batch_i, outcomes, output, notCls>>

\* a completion pass that writes the partial mapping as it is
CompleteMappingSampledOnly(recs, m) == m

\* a completion pass that reclassifies every value by the cascade
CompleteMappingAllCascade(recs, m) ==
    [dt \in Range(CounterKeys(recs)) |-> fallback_classification(<<dt>>)[dt]]

\* a completion pass that labels every value the partial mapping lacks MISC
CompleteMappingMiscDefault(recs, m) ==
    [dt \in Range(CounterKeys(recs)) |->
        IF dt \in DOMAIN m THEN m[dt] ELSE "MISC"]

\* complete_mapping of lines 276-287
CompleteMapping(recs, m) ==
    [dt \in Range(CounterKeys(recs)) |->
        IF dt \in DOMAIN m THEN m[dt] ELSE fallback_classification(<<dt>>)[dt]]

\* the second pass and the write (lines 276-293)
Complete ==
    /\ pc = "classified"
    /\ output' = Append(output, CompleteMapping(records, mapping))
    /\ pc' = "done"
    /\ UNCHANGED <<records, use_llm, llm_env, sampled, mapping, batch_i, outcomes, notCls>>

InitCreate ==
    /\ records \in UNION {[1..n -> DocTypeValues] : n \in 0..MaxRecords}
    /\ use_llm \in BOOLEAN
    /\ llm_env \in {"no_openai", "no_key", "ready"}
    /\ pc = "start"
    /\ sampled = <<>>
    /\ mapping = EmptyDict
    /\ batch_i = 0
    /\ outcomes = <<>>
    /\ output = <<>>

IdleCreate ==
    /\ records = <<>> /\ use_llm = FALSE /\ llm_env = "ready" /\ pc = "idle"
    /\ sampled = <<>> /\ mapping = EmptyDict /\ batch_i = 0 /\ outcomes = <<>>
    /\ output = <<>>

-----------------------------------------------------------------------------
(* fallback_classification applied to one string *)

Fragments ==
    {"deed", "Trust", "trustee", "WARRANTY", "mtg", "ASSIGNMENT", "release", "sat",
     "cancel", "lien", "plat", "map", "lease", "sub tr", "easement", "right of way",
     "grant", "poa", "notice", "dt", "D/T", "judgment", "xyz", "morg", "quitclaim",
     "substitute"}

CascadeInputs ==
    {"WARRANTY DEED", "DEED OF TRUST", "MTG ASSIGNMENT"}
    \cup Fragments
    \cup {" " \o a \o "\t" : a \in Fragments}
    \cup {a \o " " \o b : a, b \in Fragments}

CallFallback ==
    /\ fc_out = <<>>
    /\ fc_out' = <<fallback_classification(<<fc_in>>)>>
    /\ UNCHANGED <<fc_in, notFc>>

InitCascade == fc_in \in CascadeInputs /\ fc_out = <<>>

IdleCascade == fc_in = "" /\ fc_out = <<EmptyDict>>

-----------------------------------------------------------------------------
IdleStream ==
    file = <<>> /\ line_num = 0 /\ yielded = <<>> /\ warned = {} /\ st_pc = "idle"

IdleDates ==
    /\ date_values = <<>> /\ today = <<>> /\ dr_i = 0 /\ dates = <<>> /\ anomalies = <<>>
    /\ calls = <<>> /\ dr_result = <<>> /\ dr_exc = "" /\ dr_pc = "idle"

IdleInstruments ==
    /\ instr_values = <<>> /\ instrument_numbers = <<>> /\ ip_i = 0
    /\ pattern_groups = <<>> /\ ip_result = <<>> /\ ip_pc = "idle"

IdleBookPage ==
    /\ bp_records = <<>> /\ bp_i = 0 /\ books = <<>> /\ pages = <<>>
    /\ bp_result = <<>> /\ bp_report = <<>> /\ bp_pc = "idle"

IdleCounties ==
    /\ cp_records = <<>> /\ cp_i = 0 /\ county_records = <<>> /\ results = <<>>
    /\ cp_output = <<>> /\ cp_exc = "" /\ cp_pc = "idle"

IdleScraper ==
    /\ max_retries = 0 /\ attempt = 0 /\ attempts = <<>>
    /\ sb_result = <<>> /\ sb_exc = "" /\ sb_pc = "idle"

InitClassifier ==
    /\ (InitCreate /\ IdleCascade) \/ (IdleCreate /\ InitCascade)
    /\ IdleStream /\ IdleDates /\ IdleInstruments /\ IdleBookPage /\ IdleCounties
    /\ IdleScraper

NextClassifier ==
    \/ Sample
    \/ ClassifyRuleBased
    \/ LLMUnavailable
    \/ LLMNoKey
    \/ LLMStart
    \/ BatchOk
    \/ BatchError
    \/ LLMReturn
    \/ Complete
    \/ CallFallback

SpecClassifier == InitClassifier /\ [][NextClassifier]_vars

-----------------------------------------------------------------------------
(* Claims about the classifier, checked under SpecClassifier *)

\* the doc_type values present in the dataset: a record without doc_type,
\* or with an empty one, carries no value
PresentDocTypes == {records[i] : i \in DOMAIN records} \ {None, ""}

Written == output[Len(output)]

\* the loop of classify_with_llm ran (credential and package available)
LLMPath == use_llm /\ llm_env = "ready"

\* C1: once create_mapping has finished, whatever the accelerant did, every
\* distinct doc_type value present in the input has an entry in the mapping
\* that was written.
C1_CompletionTotality ==
    pc = "done" =>
        /\ Len(output) = 1
        /\ \A v \in PresentDocTypes : v \in DOMAIN Written

\* C1 witness: a finished run with the accelerant in which a batch failed,
\* a value was left out of the sample, and every present value is mapped
C1_Witness ==
    /\ pc = "done" /\ LLMPath
    /\ \E n \in DOMAIN outcomes : ~outcomes[n].ok
    /\ PresentDocTypes \ Range(sampled) # {}
    /\ PresentDocTypes \subseteq DOMAIN Written

RuleHolds(n, d) ==
    CASE n = 1 -> d \in {"dt", "d/t", "d-t", "d-tr", "d-trust", "sub tr", "subst tr",
                         "substitution trustee"}
      [] n = 2 -> Contains("trust", d) /\ (Contains("deed", d) \/ StartsWith(d, "trust"))
      [] n = 3 -> \E k \in {"mortgage", "mtge", "mtg", "morg"} : Contains(k, d)
      [] n = 4 -> \E k \in {"satisfaction", "sat", "cancellation", "can", "cancel",
                            "release", "rel"} : Contains(k, d)
      [] n = 5 -> Contains("lien", d) \/ d \in {"judgment", "judgement"}
      [] n = 6 -> \E k \in {"plat", "map"} : Contains(k, d)
      [] n = 7 -> Contains("lease", d)
      [] n = 8 -> \E k \in {"substitute trustee", "substitution trustee", "sub tr",
                            "subst tr"} : Contains(k, d)
      [] n = 9 -> Contains("easement", d) \/ Contains("right of way", d)
      [] n = 10 -> \E k \in {"deed", "warranty", "quitclaim", "grant", "conveyance"} :
                      Contains(k, d)
      [] n = 11 -> \E k \in {"assignment", "asign", "assign"} : Contains(k, d)
      [] n = 12 -> \E k \in {"power of attorney", "poa", "notice", "see instrument"} :
                      Contains(k, d)
      [] OTHER -> TRUE

RuleCategory(n, d) ==
    CASE n \in {1, 2, 8} -> "DEED_OF_TRUST"
      [] n = 3 -> "MORTGAGE"
      [] n = 4 -> "RELEASE"
      [] n = 5 -> "LIEN"
      [] n = 6 -> "PLAT"
      [] n = 7 -> "LEASE"
      [] n = 9 -> "EASEMENT"
      [] n = 10 -> IF Contains("trust", d) THEN "DEED_OF_TRUST"
                   ELSE IF Contains("easement", d) THEN "EASEMENT"
                   ELSE "SALE_DEED"
      [] n = 11 -> IF Contains("mortgage", d) \/ Contains("mtg", d) THEN "MORTGAGE"
                   ELSE IF Contains("trust", d) THEN "DEED_OF_TRUST"
                   ELSE "MISC"
      [] OTHER -> "MISC"

FirstRule(d) == CHOOSE n \in 1..13 : RuleHolds(n, d) /\ \A m \in 1..(n - 1) : ~RuleHolds(m, d)

\* C3: fallback_classification gives each string the category of the first
\* matching rule of the fixed order; a string containing both 'deed' and
\* 'trust' is DEED_OF_TRUST; WARRANTY DEED, DEED OF TRUST and MTG ASSIGNMENT
\* are SALE_DEED, DEED_OF_TRUST and MORTGAGE.
C3_CascadePrecedence ==
    (pc = "idle" /\ fc_out # <<>>) =>
        LET d == Strip(Lower(fc_in))
            got == fc_out[1][fc_in]
        IN /\ DOMAIN fc_out[1] = {fc_in}
           /\ got = RuleCategory(FirstRule(d), d)
           /\ (Contains("deed", d) /\ Contains("trust", d) => got = "DEED_OF_TRUST")
           /\ (fc_in = "WARRANTY DEED" => got = "SALE_DEED")
           /\ (fc_in = "DEED OF TRUST" => got = "DEED_OF_TRUST")
           /\ (fc_in = "MTG ASSIGNMENT" => got = "MORTGAGE")

\* C3 witness: the cascade was applied to a string that holds a generic
\* deed keyword and 'trust' but matches no trust rule before the deed rule
C3_Witness ==
    /\ pc = "idle" /\ fc_out # <<>>
    /\ fc_in = "WARRANTY trustee"
    /\ fc_out[1][fc_in] = "DEED_OF_TRUST"

\* C4: in the written mapping a value covered by the partial mapping keeps
\* the partial mapping's category, any other value gets the cascade's
\* category, and the keys are exactly the distinct values of the dataset.
C4_CompletionPass ==
    pc = "done" =>
        /\ DOMAIN Written = PresentDocTypes
        /\ \A v \in DOMAIN Written :
              Written[v] = IF v \in DOMAIN mapping THEN mapping[v] ELSE ClassifyOne(v)

\* C4 witness: a written mapping with a value the partial mapping covers with
\* a label other than the cascade's, and a value it does not cover
C4_Witness ==
    /\ pc = "done"
    /\ \E v \in DOMAIN Written : v \in DOMAIN mapping /\ Written[v] # ClassifyOne(v)
    /\ \E v \in DOMAIN Written : v \notin DOMAIN mapping

\* the number of batches the loop has to go through
BatchCount == (Len(sampled) + batch_size - 1) \div batch_size

\* C5: in classify_with_llm every value of a failed batch has the cascade's
\* category, every value of a successful batch its validated label, whatever
\* happened to the other batches; the loop goes through all batches and the
\* returned mapping holds every input value.
C5_BatchFailureIsLocal ==
    LLMPath =>
        /\ \A n \in DOMAIN outcomes :
              LET o == outcomes[n] IN
              /\ o.batch = Batch(sampled, (n - 1) * batch_size)
              /\ \A j \in DOMAIN o.batch :
                    /\ o.batch[j] \in DOMAIN mapping
                    /\ mapping[o.batch[j]] =
                          IF o.ok THEN ParsedLabel(o.content, j) ELSE ClassifyOne(o.batch[j])
        /\ pc \in {"classified", "done"} =>
              /\ Len(outcomes) = BatchCount
              /\ DOMAIN mapping = Range(sampled)

\* C5 witness: classify_with_llm returned after a failed batch was followed
\* by a successful one
C5_Witness ==
    /\ LLMPath /\ pc = "classified"
    /\ \E a, b \in DOMAIN outcomes : a < b /\ ~outcomes[a].ok /\ outcomes[b].ok

-----------------------------------------------------------------------------
(* utils.stream_jsonl *)

MaxLines == 3

Digits == "0123456789"
DigitValueOf == [c \in {CharAt(Digits, i) : i \in 1..10} |->
                    CHOOSE n \in 0..9 : CharAt(Digits, n + 1) = c]
IsDigit(c) == c \in DOMAIN DigitValueOf

\* the index of the first non-whitespace character of s at or after i
RECURSIVE SkipWs(_, _)
SkipWs(s, i) ==
    IF i <= Len(s) /\ CharAt(s, i) \in Whitespace THEN SkipWs(s, i + 1) ELSE i

\* json.loads on the JSON subset the input lines use: objects with string
\* keys, arrays, strings without escapes, integers, null, true, false.
\* Each Scan operator returns the index after what it read, or 0 when the
\* text is no JSON there (JSONDecodeError).
RECURSIVE ScanDigits(_, _)
ScanDigits(s, i) ==
    IF i <= Len(s) /\ IsDigit(CharAt(s, i)) THEN ScanDigits(s, i + 1) ELSE i

RECURSIVE ScanString(_, _)
ScanString(s, i) ==   \* i is after the opening quote
    IF i > Len(s) THEN 0
    ELSE IF CharAt(s, i) = "\"" THEN i + 1
    ELSE ScanString(s, i + 1)

ScanLiteral(s, i, word) ==
    IF i + Len(word) - 1 <= Len(s) /\ SubSeq(s, i, i + Len(word) - 1) = word
    THEN i + Len(word) ELSE 0

RECURSIVE ScanValue(_, _)
RECURSIVE ScanMembers(_, _)
RECURSIVE ScanElements(_, _)

ScanValue(s, i0) ==
    LET i == SkipWs(s, i0)
        c == IF i <= Len(s) THEN CharAt(s, i) ELSE ""
    IN IF c = "{" THEN
            (IF SkipWs(s, i + 1) <= Len(s) /\ CharAt(s, SkipWs(s, i + 1)) = "}"
             THEN SkipWs(s, i + 1) + 1 ELSE ScanMembers(s, i + 1))
       ELSE IF c = "[" THEN
            (IF SkipWs(s, i + 1) <= Len(s) /\ CharAt(s, SkipWs(s, i + 1)) = "]"
             THEN SkipWs(s, i + 1) + 1 ELSE ScanElements(s, i + 1))
       ELSE IF c = "\"" THEN ScanString(s, i + 1)
       ELSE IF IsDigit(c) THEN ScanDigits(s, i)
       ELSE IF c = "-" THEN
            (IF i + 1 <= Len(s) /\ IsDigit(CharAt(s, i + 1)) THEN ScanDigits(s, i + 1) ELSE 0)
       ELSE IF c = "n" THEN ScanLiteral(s, i, "null")
       ELSE IF c = "t" THEN ScanLiteral(s, i, "true")
       ELSE IF c = "f" THEN ScanLiteral(s, i, "false")
       ELSE 0

\* "key": value {, "key": value} }
ScanMembers(s, i0) ==
    LET i == SkipWs(s, i0) IN
    IF i > Len(s) \/ CharAt(s, i) # "\"" THEN 0
    ELSE LET k == ScanString(s, i + 1)
             colon == IF k = 0 THEN 0 ELSE SkipWs(s, k)
         IN IF k = 0 \/ colon > Len(s) \/ CharAt(s, colon) # ":" THEN 0
            ELSE LET v == ScanValue(s, colon + 1)
                     e == IF v = 0 THEN 0 ELSE SkipWs(s, v)
                 IN IF v = 0 \/ e > Len(s) THEN 0
                    ELSE IF CharAt(s, e) = "}" THEN e + 1
                    ELSE IF CharAt(s, e) = "," THEN ScanMembers(s, e + 1)
                    ELSE 0

\* value {, value} ]
ScanElements(s, i0) ==
    LET v == ScanValue(s, i0)
        e == IF v = 0 THEN 0 ELSE SkipWs(s, v)
    IN IF v = 0 \/ e > Len(s) THEN 0
       ELSE IF CharAt(s, e) = "]" THEN e + 1
       ELSE IF CharAt(s, e) = "," THEN ScanElements(s, e + 1)
       ELSE 0

\* whether json.loads(s) returns (FALSE: it raises JSONDecodeError)
JsonParses(s) ==
    LET e == ScanValue(s, 1) IN e # 0 /\ SkipWs(s, e) = Len(s) + 1

\* type(json.loads(s)).__name__ for a text that parses
JsonType(s) ==
    LET c == CharAt(s, SkipWs(s, 1)) IN
    CASE c = "{" -> "dict"
      [] c = "[" -> "list"
      [] c = "\"" -> "str"
      [] c = "n" -> "NoneType"
      [] c \in {"t", "f"} -> "bool"
      [] OTHER -> "int"

\* the value json.loads(s) returns: its type and the text it was read from
JsonLoads(s) == [type |-> JsonType(s), text |-> s]

\* the lines a file may hold (without their line terminator)
FileLines ==
    {"", "  \t", "{\"county\": \"wake\"}", " {\"county\": \"wake\", \"book\": 12} ",
     "{\"county\": ", "{county: wake}", "42", "\"wake\"", "[1, 2]", "null"}

\* line 30-32: an empty line is skipped
ReadBlank ==
    /\ st_pc = "reading" /\ line_num < Len(file)
    /\ Strip(file[line_num + 1]) = ""
    /\ line_num' = line_num + 1
    /\ UNCHANGED <<file, yielded, warned, st_pc, notSt>>

\* lines 33-34: json.loads returns and its value is yielded
ReadValue ==
    /\ st_pc = "reading" /\ line_num < Len(file)
    /\ LET line == Strip(file[line_num + 1]) IN
          /\ line # "" /\ JsonParses(line)
          /\ yielded' = Append(yielded, JsonLoads(line))
    /\ line_num' = line_num + 1
    /\ UNCHANGED <<file, warned, st_pc, notSt>>

\* lines 35-37: JSONDecodeError is logged and the line skipped
ReadInvalid ==
    /\ st_pc = "reading" /\ line_num < Len(file)
    /\ LET line == Strip(file[line_num + 1]) IN line # "" /\ ~JsonParses(line)
    /\ warned' = warned \cup {line_num + 1}
    /\ line_num' = line_num + 1
    /\ UNCHANGED <<file, yielded, st_pc, notSt>>

\* the for loop ends and the file is closed
EndOfFile ==
    /\ st_pc = "reading" /\ line_num = Len(file)
    /\ st_pc' = "closed"
    /\ UNCHANGED <<file, line_num, yielded, warned, notSt>>

InitStreamOnly ==
    /\ file \in UNION {[1..n -> FileLines] : n \in 0..MaxLines}
    /\ line_num = 0 /\ yielded = <<>> /\ warned = {} /\ st_pc = "reading"

InitStream ==
    InitStreamOnly /\ IdleCreate /\ IdleCascade /\ IdleDates /\ IdleInstruments /\ IdleBookPage
    /\ IdleCounties /\ IdleScraper

NextStream == ReadBlank \/ ReadValue \/ ReadInvalid \/ EndOfFile

SpecStream == InitStream /\ [][NextStream]_vars

\* the lines of the file that are JSON objects, in file order
ObjectLines == SelectSeq(file, LAMBDA l : Strip(l) # "" /\ JsonParses(Strip(l))
                                          /\ JsonType(Strip(l)) = "dict")

\* C7: stream_jsonl yields, in file order, exactly the lines that are JSON
\* objects; empty lines, invalid JSON and JSON that is not an object yield
\* nothing, and the number of yielded records is the number of object lines.
C7_YieldsExactlyObjects ==
    st_pc = "closed" =>
        /\ Len(yielded) = Len(ObjectLines)
        /\ \A n \in DOMAIN yielded :
              yielded[n].type = "dict" /\ yielded[n].text = Strip(ObjectLines[n])

-----------------------------------------------------------------------------
(* datetime: strptime, isoformat, comparison *)

DigitValue(c) == DigitValueOf[c]

\* whether s[i:i+n] is n digits
DigitsAt(s, i, n) == i + n - 1 <= Len(s) /\ \A k \in i..(i + n - 1) : IsDigit(CharAt(s, k))

\* int(s) for a string of digits
RECURSIVE ToInt(_)
ToInt(s) ==
    IF s = "" THEN 0
    ELSE 10 * ToInt(SubSeq(s, 1, Len(s) - 1)) + DigitValue(CharAt(s, Len(s)))

\* n rendered in decimal with at least w digits (format spec 0w d)
RECURSIVE Pad(_, _)
Pad(n, w) ==
    IF n < 10 /\ w <= 1 THEN CharAt(Digits, n + 1)
    ELSE Pad(n \div 10, w - 1) \o CharAt(Digits, (n % 10) + 1)

NoMatch == [len |-> 0, val |-> 0]
Absent == 100000

\* a field that strptime's regex reads as two digits with a value in
\* lo2..hi2 or else as one digit with a value in lo1..hi1
ReadNumber(s, i, lo2, hi2, lo1, hi1) ==
    IF DigitsAt(s, i, 2) /\ ToInt(SubSeq(s, i, i + 1)) \in lo2..hi2
    THEN [len |-> 2, val |-> ToInt(SubSeq(s, i, i + 1))]
    ELSE IF DigitsAt(s, i, 1) /\ ToInt(SubSeq(s, i, i)) \in lo1..hi1
    THEN [len |-> 1, val |-> ToInt(SubSeq(s, i, i))]
    ELSE NoMatch

\* the longest run of at most n digits at s[i:]
RECURSIVE DigitRun(_, _, _)
DigitRun(s, i, n) == IF n > 0 /\ DigitsAt(s, i, 1) THEN 1 + DigitRun(s, i + 1, n - 1) ELSE 0

RECURSIVE Pow10(_)
Pow10(n) == IF n = 0 THEN 1 ELSE 10 * Pow10(n - 1)

\* the minutes [0-5]\d at s[j:] of an offset that starts at s[i]
OffsetMinutes(s, i, sign, j) ==
    IF DigitsAt(s, j, 2) /\ DigitValue(CharAt(s, j)) <= 5
    THEN [len |-> j + 2 - i,
          val |-> sign * (60 * ToInt(SubSeq(s, i + 1, i + 2)) + ToInt(SubSeq(s, j, j + 1)))]
    ELSE NoMatch

\* %z: Z, or a sign, two digits of hours, an optional colon and minutes
\* [0-5]\d; the value is the offset in minutes
ReadOffset(s, i) ==
    IF i <= Len(s) /\ CharAt(s, i) = "Z" THEN [len |-> 1, val |-> 0]
    ELSE IF i <= Len(s) /\ CharAt(s, i) \in {"+", "-"} /\ DigitsAt(s, i + 1, 2)
    THEN OffsetMinutes(s, i, IF CharAt(s, i) = "-" THEN -1 ELSE 1,
                       IF i + 3 <= Len(s) /\ CharAt(s, i + 3) = ":" THEN i + 4 ELSE i + 3)
    ELSE NoMatch

\* %d: one or two digits, or else a space and one digit
DayOr(r, r1) ==
    IF r.len > 0 THEN r
    ELSE IF r1.len = 1 THEN [len |-> 2, val |-> r1.val]
    ELSE NoMatch

\* %f: a run of n digits, read as microseconds
Fraction(s, i, n) ==
    IF n = 0 THEN NoMatch
    ELSE [len |-> n, val |-> ToInt(SubSeq(s, i, i + n - 1)) * Pow10(6 - n)]

\* what one directive of a format reads at s[i:]
Directive(dch, s, i) ==
    CASE dch = "Y" -> IF DigitsAt(s, i, 4)
                      THEN [len |-> 4, val |-> ToInt(SubSeq(s, i, i + 3))] ELSE NoMatch
      [] dch = "m" -> ReadNumber(s, i, 1, 12, 1, 9)
      [] dch = "d" -> DayOr(ReadNumber(s, i, 1, 31, 1, 9),
                            IF i <= Len(s) /\ CharAt(s, i) = " "
                            THEN ReadNumber(s, i + 1, 1, 0, 1, 9) ELSE NoMatch)
      [] dch = "H" -> ReadNumber(s, i, 0, 23, 0, 9)
      [] dch = "I" -> ReadNumber(s, i, 1, 12, 1, 9)
      [] dch = "M" -> ReadNumber(s, i, 0, 59, 0, 9)
      [] dch = "S" -> ReadNumber(s, i, 0, 61, 0, 9)
      [] dch = "f" -> Fraction(s, i, DigitRun(s, i, 6))
      [] dch = "z" -> ReadOffset(s, i)
      [] dch = "p" -> IF i + 1 <= Len(s) /\ Lower(SubSeq(s, i, i + 1)) = "am"
                      THEN [len |-> 2, val |-> 0]
                      ELSE IF i + 1 <= Len(s) /\ Lower(SubSeq(s, i, i + 1)) = "pm"
                      THEN [len |-> 2, val |-> 1]
                      ELSE NoMatch
      [] OTHER -> NoMatch

NoFields == [dch \in {"Y", "m", "d", "H", "I", "M", "S", "f", "z", "p"} |-> Absent]

\* the number of whitespace characters at s[i:]
RECURSIVE WsRun(_, _)
WsRun(s, i) == IF i <= Len(s) /\ CharAt(s, i) \in Whitespace THEN 1 + WsRun(s, i + 1) ELSE 0

\* strptime's match of s[i:] against fmt[k:]: the fields read, or ok = FALSE
\* (no match, or unconverted data remains)
RECURSIVE MatchFormat(_, _, _, _, _)
RECURSIVE MatchDirective(_, _, _, _, _, _, _)
RECURSIVE MatchSpace(_, _, _, _, _, _)

MatchFormat(s, i, fmt, k, f) ==
    IF k > Len(fmt) THEN [ok |-> i = Len(s) + 1, f |-> f]
    ELSE IF CharAt(fmt, k) = "%"
        THEN MatchDirective(s, i, fmt, k, f, CharAt(fmt, k + 1),
                            Directive(CharAt(fmt, k + 1), s, i))
    ELSE IF CharAt(fmt, k) = " "
        THEN MatchSpace(s, i, fmt, k, f, WsRun(s, i))
    ELSE IF i <= Len(s) /\ LowerChar(CharAt(s, i)) = LowerChar(CharAt(fmt, k))
        THEN MatchFormat(s, i + 1, fmt, k + 1, f)
    ELSE [ok |-> FALSE, f |-> f]

\* the directive dch of fmt[k:] read r at s[i:]
MatchDirective(s, i, fmt, k, f, dch, r) ==
    IF r.len = 0 THEN [ok |-> FALSE, f |-> f]
    ELSE MatchFormat(s, i + r.len, fmt, k + 2, [f EXCEPT ![dch] = r.val])

\* whitespace in the format stands for n >= 1 whitespace characters
MatchSpace(s, i, fmt, k, f, n) ==
    IF n = 0 THEN [ok |-> FALSE, f |-> f]
    ELSE MatchFormat(s, i + n, fmt, k + 1, f)

IsLeap(y) == (y % 4 = 0 /\ y % 100 # 0) \/ y % 400 = 0

DaysInMonth(y, m) ==
    IF m = 2 THEN (IF IsLeap(y) THEN 29 ELSE 28)
    ELSE IF m \in {4, 6, 9, 11} THEN 30 ELSE 31

Default(v, dflt) == IF v = Absent THEN dflt ELSE v

\* the hour strptime derives from %H, or from %I and %p
HourOf(f) ==
    IF f["I"] = Absent THEN Default(f["H"], 0)
    ELSE IF f["p"] = 1 THEN (IF f["I"] = 12 THEN 12 ELSE f["I"] + 12)
    ELSE (IF f["I"] = 12 THEN 0 ELSE f["I"])

\* the datetime built from the fields read
FieldsToDatetime(f) ==
    [year |-> Default(f["Y"], 1900), month |-> Default(f["m"], 1), day |-> Default(f["d"], 1),
     hour |-> HourOf(f), minute |-> Default(f["M"], 0), second |-> Default(f["S"], 0),
     microsecond |-> Default(f["f"], 0),
     aware |-> f["z"] # Absent, utcoffset |-> Default(f["z"], 0)]

\* whether the datetime constructor accepts the value (else ValueError)
ValidDatetime(dt) ==
    /\ dt.year >= 1
    /\ dt.day <= DaysInMonth(dt.year, dt.month)
    /\ dt.second <= 59
    /\ dt.utcoffset > -1440 /\ dt.utcoffset < 1440

\* datetime.strptime(s, fmt): ok = FALSE stands for ValueError
Constructed(matched, dt) == [ok |-> matched /\ ValidDatetime(dt), dt |-> dt]
Converted(m) == Constructed(m.ok, FieldsToDatetime(m.f))
strptime(s, fmt) == Converted(MatchFormat(s, 1, fmt, 1, NoFields))

Abs(n) == IF n < 0 THEN -n ELSE n

\* dt.isoformat()
isoformat(dt) ==
    Pad(dt.year, 4) \o "-" \o Pad(dt.month, 2) \o "-" \o Pad(dt.day, 2) \o "T"
    \o Pad(dt.hour, 2) \o ":" \o Pad(dt.minute, 2) \o ":" \o Pad(dt.second, 2)
    \o (IF dt.microsecond # 0 THEN "." \o Pad(dt.microsecond, 6) ELSE "")
    \o (IF dt.aware
        THEN (IF dt.utcoffset < 0 THEN "-" ELSE "+")
             \o Pad(Abs(dt.utcoffset) \div 60, 2) \o ":" \o Pad(Abs(dt.utcoffset) % 60, 2)
        ELSE "")

-----------------------------------------------------------------------------
(* utils.parse_date *)

\* the templates of lines 68-82, in order
formats ==
    <<"%Y-%m-%dT%H:%M:%S",
      "%Y-%m-%dT%H:%M:%S%z",
      "%Y-%m-%dT%H:%M:%SZ",
      "%Y-%m-%dT%H:%M:%S.%f",
      "%Y-%m-%dT%H:%M:%S.%f%z",
      "%Y-%m-%d",
      "%Y/%m/%d",
      "%m/%d/%Y",
      "%m/%d/%Y %I:%M:%S %p",
      "%m/%d/%Y %I:%M:%S %p",
      "%m/%d/%Y %H:%M:%S",
      "%m/%d/%Y %I:%M %p",
      "%m/%d/%Y %H:%M">>

\* a JSON value of a record field: its Python type and its text
StrValue(s) == [type |-> "str", s |-> s]
IntValue(s) == [type |-> "int", s |-> s]
NoneValue == [type |-> "NoneType", s |-> ""]

\* bool(v)
Truthy(v) ==
    CASE v.type = "NoneType" -> FALSE
      [] v.type = "str" -> v.s # ""
      [] OTHER -> ToInt(v.s) # 0

\* what dateutil's parser.parse does with a string no template parses: the
\* package is missing, the string is rejected, or some datetime comes back
FallbackDatetimes ==
    {[year |-> 2021, month |-> 3, day |-> 4, hour |-> 0, minute |-> 0, second |-> 0,
      microsecond |-> 0, aware |-> FALSE, utcoffset |-> 0]}
FallbackOutcomes ==
    {[kind |-> "ImportError", dt |-> d] : d \in FallbackDatetimes}
    \cup {[kind |-> "ValueError", dt |-> d] : d \in FallbackDatetimes}
    \cup {[kind |-> "parsed", dt |-> d] : d \in FallbackDatetimes}

\* the indexes of the templates that parse s
ParsingFormats(s) == {k \in DOMAIN formats : strptime(s, formats[k]).ok}

\* parse_date(date_str) when the fallback parser behaves as fb: the value
\* returned (ret), or the exception that leaves the function (exc)
\* the least element of a non-empty set of numbers
Least(S) == CHOOSE k \in S : \A j \in S : k <= j

\* lines 84-97 when the templates of the set parsing parse date_str
TryFormats(date_str, fb, parsing) ==
    IF parsing # {}
    THEN [exc |-> "", ret |-> isoformat(strptime(date_str.s, formats[Least(parsing)]).dt)]
    ELSE IF fb.kind = "parsed" THEN [exc |-> "", ret |-> isoformat(fb.dt)]
    ELSE [exc |-> "", ret |-> None]

parse_date(date_str, fb) ==
    IF ~Truthy(date_str) THEN [exc |-> "", ret |-> None]
    ELSE IF date_str.type # "str" THEN [exc |-> "TypeError", ret |-> None]
    ELSE TryFormats(date_str, fb, ParsingFormats(date_str.s))

-----------------------------------------------------------------------------
(* pattern_analyzer.analyze_date_ranges *)

MaxDates == 3

\* days since 1970-01-01 of a civil date
DaysFromCivil(y, m, d) ==
    LET yy == IF m <= 2 THEN y - 1 ELSE y
        era == yy \div 400
        yoe == yy - era * 400
        mp == IF m > 2 THEN m - 3 ELSE m + 9
        doy == (153 * mp + 2) \div 5 + d - 1
        doe == yoe * 365 + yoe \div 4 - yoe \div 100 + doy
    IN era * 146097 + doe - 719468

\* a datetime as <<days, seconds of the day, microseconds>>, in UTC when aware
Instant(dt) ==
    LET secs == dt.hour * 3600 + dt.minute * 60 + dt.second - dt.utcoffset * 60
        days == DaysFromCivil(dt.year, dt.month, dt.day)
    IN <<days + (IF secs < 0 THEN -1 ELSE IF secs >= 86400 THEN 1 ELSE 0),
         (secs + 86400) % 86400, dt.microsecond>>

InstantLess(a, b) ==
    \/ a[1] < b[1]
    \/ a[1] = b[1] /\ a[2] < b[2]
    \/ a[1] = b[1] /\ a[2] = b[2] /\ a[3] < b[3]

\* a < b for two datetimes that can be compared
Before(a, b) == InstantLess(Instant(a), Instant(b))

\* comparing or subtracting an aware and a naive datetime raises TypeError
Comparable(a, b) == a.aware = b.aware

\* (a - b).days for a later than b
DaysBetween(a, b) ==
    LET x == Instant(a)
        y == Instant(b)
    IN x[1] - y[1] - (IF x[2] < y[2] \/ (x[2] = y[2] /\ x[3] < y[3]) THEN 1 ELSE 0)

\* s.replace('Z', '+00:00')
RECURSIVE ReplaceZ(_)
ReplaceZ(s) ==
    IF s = "" THEN ""
    ELSE (IF CharAt(s, 1) = "Z" THEN "+00:00" ELSE CharAt(s, 1)) \o ReplaceZ(SubSeq(s, 2, Len(s)))

\* datetime.fromisoformat on the strings isoformat produces; ok = FALSE
\* stands for ValueError
FirstIso(s, ks) == strptime(s, formats[IF ks = {} THEN 1 ELSE Least(ks)])
fromisoformat(s) == FirstIso(s, {k \in {1, 2, 4, 5} : strptime(s, formats[k]).ok})

\* min(dates) when all of them can be compared
RECURSIVE MinDate(_)
MinDate(ds) ==
    IF Len(ds) = 1 THEN ds[1]
    ELSE LET m == MinDate(Tail(ds)) IN IF Before(m, ds[1]) THEN m ELSE ds[1]

\* max(dates) when all of them can be compared
RECURSIVE MaxDate(_)
MaxDate(ds) ==
    IF Len(ds) = 1 THEN ds[1]
    ELSE LET m == MaxDate(Tail(ds)) IN IF Before(ds[1], m) THEN m ELSE ds[1]

\* the anomalies lines 192-206 add for a date that can be compared with today
NewAnomalies(parsed_date, dt, now) ==
    (IF Before(now, dt) /\ DaysBetween(dt, now) > 1
     THEN <<[date |-> parsed_date, type |-> "future_date", n |-> DaysBetween(dt, now)]>>
     ELSE <<>>)
    \o (IF dt.year < 1800
        THEN <<[date |-> parsed_date, type |-> "very_old_date", n |-> dt.year]>>
        ELSE <<>>)

\* the 'date' values a record may carry
DateValues ==
    {StrValue("2024-03-12T12:00:01"), StrValue("2020-01-15T10:30:00Z"),
     StrValue("1799-12-31"), StrValue("6/1/2007 2:58 PM"), StrValue("garbage"),
     StrValue(""), IntValue("20200115"), NoneValue}

Now == [year |-> 2024, month |-> 3, day |-> 10, hour |-> 12, minute |-> 0, second |-> 0,
        microsecond |-> 250, aware |-> FALSE, utcoffset |-> 0]

\* dates at the thresholds of lines 192-201, with today = Now: 2 days, 12
\* hours, 1 day 12 hours and 1 day ahead, the first day of 1800, and a day of
\* 1799 with a UTC offset
BoundaryDates ==
    {"2024-03-12T12:00:00.000250", "2024-03-11T00:00:00.000250",
     "2024-03-12T00:00:00.000250", "2024-03-11T12:00:00.000250",
     "1800-01-01", "1799-12-31T00:00:00Z"}

\* parse_date and fromisoformat on the values the records of the model
\* carry, computed once
DateInputs == DateValues \cup {StrValue(d) : d \in BoundaryDates}
ParseDateOf ==
    [v \in DateInputs |-> [fb \in FallbackOutcomes |-> parse_date(v, fb)]]
FromIsoOf ==
    [s \in {ParseDateOf[v][fb].ret : v \in DateInputs, fb \in FallbackOutcomes} \ {None} |->
        fromisoformat(ReplaceZ(s))]

NextDate == date_values[dr_i + 1]

\* lines 176-178: the record has no date
DateAbsent ==
    /\ dr_pc = "loop" /\ dr_i < Len(date_values)
    /\ ~Truthy(NextDate)
    /\ dr_i' = dr_i + 1
    /\ UNCHANGED <<date_values, today, dates, anomalies, calls, dr_result, dr_exc, dr_pc, notDr>>

\* the entry of the history for a call of parse_date
Call(arg, fb, r) == [arg |-> arg, fb |-> fb.kind, exc |-> r.exc, ret |-> r.ret]

\* lines 180-182: parse_date returned None
Unparsed(arg, fb, r) ==
    /\ r.exc = "" /\ r.ret = None
    /\ calls' = Append(calls, Call(arg, fb, r))
    /\ dr_i' = dr_i + 1
    /\ UNCHANGED <<date_values, today, dates, anomalies, dr_result, dr_exc, dr_pc, notDr>>

DateUnparsed ==
    /\ dr_pc = "loop" /\ dr_i < Len(date_values)
    /\ Truthy(NextDate)
    /\ \E fb \in FallbackOutcomes : Unparsed(NextDate, fb, ParseDateOf[NextDate][fb])

\* line 180: parse_date raised; nothing up to analyze_county_patterns'
\* caller catches it
ParseRaised(arg, fb, r) ==
    /\ r.exc # ""
    /\ calls' = Append(calls, Call(arg, fb, r))
    /\ dr_exc' = r.exc
    /\ dr_pc' = "raised"
    /\ UNCHANGED <<date_values, today, dr_i, dates, anomalies, dr_result, notDr>>

DateParseRaises ==
    /\ dr_pc = "loop" /\ dr_i < Len(date_values)
    /\ Truthy(NextDate)
    /\ \E fb \in FallbackOutcomes : ParseRaised(NextDate, fb, ParseDateOf[NextDate][fb])

\* lines 184-213 if a date that gets an anomaly were kept out of dates
CheckedDroppingFlagged(parsed_date, p) ==
    /\ p.ok => Comparable(p.dt, today)
    /\ dates' = IF p.ok /\ NewAnomalies(parsed_date, p.dt, today) = <<>>
                THEN Append(dates, p.dt) ELSE dates
    /\ anomalies' =
          IF p.ok THEN anomalies \o NewAnomalies(parsed_date, p.dt, today)
          ELSE Append(anomalies, [date |-> parsed_date, type |-> "parse_error", n |-> 0])
    /\ dr_i' = dr_i + 1
    /\ UNCHANGED <<date_values, today, dr_result, dr_exc, dr_pc, notDr>>

\* lines 184-213 for a date p that fromisoformat rejects (parse_error) or
\* that can be compared with today
Checked(parsed_date, p) ==
    /\ p.ok => Comparable(p.dt, today)
    /\ dates' = IF p.ok THEN Append(dates, p.dt) ELSE dates
    /\ anomalies' =
          IF p.ok THEN anomalies \o NewAnomalies(parsed_date, p.dt, today)
          ELSE Append(anomalies, [date |-> parsed_date, type |-> "parse_error", n |-> 0])
    /\ dr_i' = dr_i + 1
    /\ UNCHANGED <<date_values, today, dr_result, dr_exc, dr_pc, notDr>>

\* lines 184-192 for a timezone-aware date p: it is appended to dates, then
\* `dt > today` raises TypeError, which the handler of line 208 does not catch
CompareRaised(p) ==
    /\ p.ok /\ ~Comparable(p.dt, today)
    /\ dates' = Append(dates, p.dt)
    /\ dr_exc' = "TypeError"
    /\ dr_pc' = "raised"
    /\ UNCHANGED <<date_values, today, dr_i, anomalies, dr_result, notDr>>

\* lines 180-188: parse_date returned r.ret, which is parsed again
Parsed(arg, fb, r) ==
    /\ r.exc = "" /\ r.ret # None
    /\ calls' = Append(calls, Call(arg, fb, r))

DateChecked ==
    /\ dr_pc = "loop" /\ dr_i < Len(date_values)
    /\ Truthy(NextDate)
    /\ \E fb \in FallbackOutcomes : \E r \in {ParseDateOf[NextDate][fb]} :
          /\ Parsed(NextDate, fb, r)
          /\ Checked(r.ret, FromIsoOf[r.ret])

DateCompareRaises ==
    /\ dr_pc = "loop" /\ dr_i < Len(date_values)
    /\ Truthy(NextDate)
    /\ \E fb \in FallbackOutcomes : \E r \in {ParseDateOf[NextDate][fb]} :
          /\ Parsed(NextDate, fb, r)
          /\ CompareRaised(FromIsoOf[r.ret])

\* lines 215-220: no valid date
DateRangeEmpty ==
    /\ dr_pc = "loop" /\ dr_i = Len(date_values)
    /\ dates = <<>>
    /\ dr_result' = <<[earliest |-> None, latest |-> None, anomalies |-> anomalies]>>
    /\ dr_pc' = "returned"
    /\ UNCHANGED <<date_values, today, dr_i, dates, anomalies, calls, dr_exc, notDr>>

\* lines 222-229: min and max; they raise TypeError when the list mixes
\* aware and naive datetimes
DateRange ==
    /\ dr_pc = "loop" /\ dr_i = Len(date_values)
    /\ dates # <<>>
    /\ IF \A a, b \in Range(dates) : Comparable(a, b)
       THEN /\ dr_result' = <<[earliest |-> isoformat(MinDate(dates)),
                               latest |-> isoformat(MaxDate(dates)),
                               anomalies |-> anomalies]>>
            /\ dr_pc' = "returned"
            /\ UNCHANGED dr_exc
       ELSE /\ dr_exc' = "TypeError"
            /\ dr_pc' = "raised"
            /\ UNCHANGED dr_result
    /\ UNCHANGED <<date_values, today, dr_i, dates, anomalies, calls, notDr>>

\* analyze_county_patterns lines 312-326: the report is written
WriteReport ==
    /\ dr_pc = "returned"
    /\ dr_pc' = "written"
    /\ UNCHANGED <<date_values, today, dr_i, dates, anomalies, calls, dr_result, dr_exc, notDr>>

InitDatesOnly ==
    /\ date_values \in UNION {[1..n -> DateValues] : n \in 0..MaxDates}
                        \cup {<<StrValue(d)>> : d \in BoundaryDates}
    /\ today = Now
    /\ dr_i = 0 /\ dates = <<>> /\ anomalies = <<>> /\ calls = <<>>
    /\ dr_result = <<>> /\ dr_exc = "" /\ dr_pc = "loop"

InitDates ==
    InitDatesOnly /\ IdleCreate /\ IdleCascade /\ IdleStream /\ IdleInstruments /\ IdleBookPage
    /\ IdleCounties /\ IdleScraper

NextDates ==
    \/ DateAbsent
    \/ DateUnparsed
    \/ DateParseRaises
    \/ DateChecked
    \/ DateCompareRaises
    \/ DateRangeEmpty
    \/ DateRange
    \/ WriteReport

SpecDates == InitDates /\ [][NextDates]_vars

\* C6: the run writes its output for every content of the records; no date,
\* whether it normalizes or not and timezone-qualified or not, makes an
\* exception leave the run.
C6_RunNeverRaises == dr_pc # "raised" /\ dr_exc = ""

\* C8: parse_date never raises; it returns None or an ISO-8601 string; when
\* a template parses the string the result is the rendering of the first
\* such template; None is returned only when every template and the
\* fallback parser fail.
C8_ParseDateNeverRaises ==
    \A n \in DOMAIN calls :
        LET c == calls[n] IN
        /\ c.exc = ""
        /\ c.ret = None \/ fromisoformat(c.ret).ok
        /\ (c.arg.type = "str" /\ ParsingFormats(c.arg.s) # {}) =>
              \E k \in ParsingFormats(c.arg.s) :
                 /\ \A j \in ParsingFormats(c.arg.s) : k <= j
                 /\ c.ret = isoformat(strptime(c.arg.s, formats[k]).dt)
        /\ c.ret = None => (c.arg.type = "str" /\ ParsingFormats(c.arg.s) = {}
                            /\ c.fb # "parsed")

\* whether the anomalies hold an entry of the given type for the datetime d
Flagged(d, type) ==
    \E a \in Range(anomalies) : a.type = type /\ a.date = isoformat(d)

\* d is later than now by strictly more than 24 hours
MoreThanOneDayAhead(d, now) ==
    InstantLess(<<Instant(now)[1] + 1, Instant(now)[2], Instant(now)[3]>>, Instant(d))

\* C12: a successfully parsed date carries a future_date anomaly if and only
\* if it is strictly more than 1 day (24 hours) ahead of the instant the
\* analysis captured; so 2 days ahead is flagged, 12 hours ahead is not, and
\* 1 day 12 hours ahead is flagged.
C12_FutureIffMoreThanOneDay ==
    dr_pc \in {"returned", "written"} =>
        \A d \in Range(dates) :
            Flagged(d, "future_date") <=> MoreThanOneDayAhead(d, today)

\* C13: a successfully parsed date carries a very_old_date anomaly, with its
\* year, if and only if its year is below 1800; and every anomaly belongs to
\* a date that parse_date normalized, so absent and unparseable dates
\* produce none.
C13_VeryOldIffBefore1800 ==
    /\ \A n \in DOMAIN calls :
          (calls[n].exc = "" /\ calls[n].ret # None) =>
              \A p \in {fromisoformat(ReplaceZ(calls[n].ret))} :
                  p.ok => (p.dt.year < 1800 <=>
                              \E a \in Range(anomalies) :
                                 /\ a.type = "very_old_date" /\ a.date = calls[n].ret
                                 /\ a.n = p.dt.year)
    /\ \A a \in Range(anomalies) :
          \E n \in DOMAIN calls : calls[n].ret # None /\ a.date = calls[n].ret

-----------------------------------------------------------------------------
(* pattern_analyzer.analyze_instrument_patterns *)

MaxInstruments == 4

\* The strings of the model are written in ASCII.  Two characters outside
\* ASCII occur in instrument numbers: SUPERSCRIPT TWO (U+00B2) is written ~
\* and LATIN SMALL LETTER E WITH ACUTE (U+00E9) is written #; the characters
\* ~ and # themselves do not occur.
SuperscriptTwo == "~"
EAcute == "#"

\* str.isdigit() and str.isalpha() of one character: isdigit holds of 0-9
\* and of U+00B2 (a digit that is not a decimal digit), isalpha of the ASCII
\* letters and of U+00E9
isdigit(c) == IsDigit(c) \/ c = SuperscriptTwo
isalpha(c) == c \in DOMAIN LowerOf \/ c \in DOMAIN UpperOf \/ c = EAcute

\* the list of line 54
EscapedChars ==
    {"-", ".", "/", "_", "(", ")", "{", "}", "[", "]", "*", "+", "?", "^", "$", "|", "\\"}

\* lines 49-57 with the two tests merged into one isalnum test
PatternPartAlnum(char) ==
    IF isdigit(char) \/ isalpha(char) THEN "[A-Za-z]"
    ELSE IF char \in EscapedChars THEN "\\" \o char
    ELSE char

\* lines 49-57: the part of the pattern one character contributes
PatternPart(char) ==
    IF isdigit(char) THEN "\\d"
    ELSE IF isalpha(char) THEN "[A-Za-z]"
    ELSE IF char \in EscapedChars THEN "\\" \o char
    ELSE char

\* lines 47-59: ''.join(pattern_parts)
RECURSIVE Pattern(_)
Pattern(instr_num) ==
    IF instr_num = "" THEN ""
    ELSE PatternPart(CharAt(instr_num, 1)) \o Pattern(SubSeq(instr_num, 2, Len(instr_num)))

\* s[i:i+n] for the 1-based index i
Slice(s, i, n) == SubSeq(s, i, Min(i + n - 1, Len(s)))

\* the loops of lines 76-78 and 84-86: where the run of tok that starts at j ends
RECURSIVE RunEnd(_, _, _, _)
RunEnd(pattern, j, tok, step) ==
    IF j <= Len(pattern) /\ Slice(pattern, j, step) = tok
    THEN RunEnd(pattern, j + step, tok, step)
    ELSE j

\* lines 70-91: ''.join(regex_parts) from index i on
RECURSIVE RegexParts(_, _)
RECURSIVE Quantified(_, _, _, _, _)

RegexParts(pattern, i) ==
    IF i > Len(pattern) THEN ""
    ELSE IF Slice(pattern, i, 2) = "\\d"
        THEN Quantified(pattern, i, "\\d", 2, RunEnd(pattern, i, "\\d", 2))
    ELSE IF Slice(pattern, i, 9) = "[A-Za-z]"
        THEN Quantified(pattern, i, "[A-Za-z]", 9, RunEnd(pattern, i, "[A-Za-z]", 9))
    ELSE CharAt(pattern, i) \o RegexParts(pattern, i + 1)

\* lines 79-80 and 87-88: the run from i to j becomes tok{count}
Quantified(pattern, i, tok, step, j) ==
    tok \o "{" \o Pad((j - i) \div step, 1) \o "}" \o RegexParts(pattern, j)

\* line 93
RegexPattern(pattern) == "^" \o RegexParts(pattern, 1) \o "$"

\* str.replace(old, new)
RECURSIVE Replace(_, _, _)
Replace(s, old, new) ==
    IF Len(s) < Len(old) THEN s
    ELSE IF SubSeq(s, 1, Len(old)) = old
        THEN new \o Replace(SubSeq(s, Len(old) + 1, Len(s)), old, new)
    ELSE CharAt(s, 1) \o Replace(SubSeq(s, 2, Len(s)), old, new)

\* line 95 without the second replace
ReadablePatternDigitsOnly(pattern) == Replace(pattern, "\\d", "D")

\* line 95
ReadablePattern(pattern) == Replace(Replace(pattern, "\\d", "D"), "[A-Za-z]", "L")

\* round(count / total_count * 100, 2), in hundredths
Rounded(q, r, total) ==
    IF 2 * r > total \/ (2 * r = total /\ q % 2 = 1) THEN q + 1 ELSE q
Percentage(count, total) ==
    IF total > 0 THEN Rounded((count * 10000) \div total, (count * 10000) % total, total)
    ELSE 0

\* lines 97-103: the dict appended for one group
Entry(g, total) ==
    [pattern |-> ReadablePattern(g.pattern),
     regex |-> RegexPattern(g.pattern),
     example |-> g.examples[1],
     count |-> Len(g.examples),
     percentage |-> Percentage(Len(g.examples), total)]

\* line 105: list.sort(key=count, reverse=True) is stable
RECURSIVE InsertByCount(_, _)
InsertByCount(e, sorted) ==
    IF sorted = <<>> THEN <<e>>
    ELSE IF Head(sorted).count >= e.count THEN <<Head(sorted)>> \o InsertByCount(e, Tail(sorted))
    ELSE <<e>> \o sorted

\* the result without the sort of line 105
ResultInDiscoveryOrder(entries) == entries

RECURSIVE SortByCount(_)
SortByCount(entries) ==
    IF entries = <<>> THEN <<>>
    ELSE InsertByCount(entries[Len(entries)], SortByCount(SubSeq(entries, 1, Len(entries) - 1)))

\* line 61: pattern_groups[pattern].append(instr_num)
AddToGroup(groups, pattern, instr_num) ==
    IF \E k \in DOMAIN groups : groups[k].pattern = pattern
    THEN [k \in DOMAIN groups |->
             IF groups[k].pattern = pattern
             THEN [groups[k] EXCEPT !.examples = Append(@, instr_num)]
             ELSE groups[k]]
    ELSE Append(groups, [pattern |-> pattern, examples |-> <<instr_num>>])

\* line 64: total_count
TotalCount(nums) == Cardinality({k \in DOMAIN nums : ~StartsWith(nums[k], "bp")})

\* values of the 'instrument_number' field
InstrumentValues ==
    {StrValue("12"), StrValue("34"), StrValue("1" \o SuperscriptTwo), StrValue("ab"), StrValue(EAcute \o "1"),
     StrValue("A-1"), StrValue("\\1"), StrValue("bp12"), StrValue(""),
     IntValue("12"), NoneValue}

\* lines 33-36: a non-empty string is kept
CollectKept ==
    /\ ip_pc = "collect" /\ ip_i < Len(instr_values)
    /\ Truthy(instr_values[ip_i + 1]) /\ instr_values[ip_i + 1].type = "str"
    /\ instrument_numbers' = Append(instrument_numbers, instr_values[ip_i + 1].s)
    /\ ip_i' = ip_i + 1
    /\ UNCHANGED <<instr_values, pattern_groups, ip_result, ip_pc, notIp>>

\* lines 33-35: any other value is passed over
CollectSkipped ==
    /\ ip_pc = "collect" /\ ip_i < Len(instr_values)
    /\ ~(Truthy(instr_values[ip_i + 1]) /\ instr_values[ip_i + 1].type = "str")
    /\ ip_i' = ip_i + 1
    /\ UNCHANGED <<instr_values, instrument_numbers, pattern_groups, ip_result, ip_pc, notIp>>

\* lines 38-39
ReturnEmpty ==
    /\ ip_pc = "collect" /\ ip_i = Len(instr_values)
    /\ instrument_numbers = <<>>
    /\ ip_result' = Append(ip_result, <<>>)
    /\ ip_pc' = "done"
    /\ UNCHANGED <<instr_values, instrument_numbers, ip_i, pattern_groups, notIp>>

\* line 41
StartGrouping ==
    /\ ip_pc = "collect" /\ ip_i = Len(instr_values)
    /\ instrument_numbers # <<>>
    /\ pattern_groups' = <<>>
    /\ ip_i' = 0
    /\ ip_pc' = "group"
    /\ UNCHANGED <<instr_values, instrument_numbers, ip_result, notIp>>

\* lines 44-45
SkipReserved ==
    /\ ip_pc = "group" /\ ip_i < Len(instrument_numbers)
    /\ StartsWith(instrument_numbers[ip_i + 1], "bp")
    /\ ip_i' = ip_i + 1
    /\ UNCHANGED <<instr_values, instrument_numbers, pattern_groups, ip_result, ip_pc, notIp>>

\* lines 47-61
GroupOne ==
    /\ ip_pc = "group" /\ ip_i < Len(instrument_numbers)
    /\ ~StartsWith(instrument_numbers[ip_i + 1], "bp")
    /\ pattern_groups' = AddToGroup(pattern_groups, Pattern(instrument_numbers[ip_i + 1]),
                                    instrument_numbers[ip_i + 1])
    /\ ip_i' = ip_i + 1
    /\ UNCHANGED <<instr_values, instrument_numbers, ip_result, ip_pc, notIp>>

\* lines 63-107
BuildResult ==
    /\ ip_pc = "group" /\ ip_i = Len(instrument_numbers)
    /\ ip_result' = Append(ip_result,
          SortByCount([k \in DOMAIN pattern_groups |->
                          Entry(pattern_groups[k], TotalCount(instrument_numbers))]))
    /\ ip_pc' = "done"
    /\ UNCHANGED <<instr_values, instrument_numbers, ip_i, pattern_groups, notIp>>

\* record lists of particular interest: the instrument numbers of a county
SignatureExample == <<StrValue("2020001234"), StrValue("2020001235"), StrValue("AB-0012")>>
\* an instrument number and the same digits followed by a line feed
LineFeedExample == <<StrValue("12"), StrValue("12\n")>>
\* six instrument numbers of six different shapes
SixShapesExample ==
    <<StrValue("1"), StrValue("12"), StrValue("123"),
      StrValue("a"), StrValue("ab"), StrValue("A-1")>>
ExampleRecords == {SignatureExample, LineFeedExample, SixShapesExample}

InitInstrumentsOnly ==
    /\ instr_values \in UNION {[1..n -> InstrumentValues] : n \in 0..MaxInstruments}
                         \cup ExampleRecords
    /\ instrument_numbers = <<>> /\ ip_i = 0 /\ pattern_groups = <<>>
    /\ ip_result = <<>> /\ ip_pc = "collect"

InitInstruments ==
    InitInstrumentsOnly /\ IdleCreate /\ IdleCascade /\ IdleStream /\ IdleDates /\ IdleBookPage
    /\ IdleCounties /\ IdleScraper

NextInstruments ==
    \/ CollectKept
    \/ CollectSkipped
    \/ ReturnEmpty
    \/ StartGrouping
    \/ SkipReserved
    \/ GroupOne
    \/ BuildResult

SpecInstruments == InitInstruments /\ [][NextInstruments]_vars

\* ---- re.match of a generated regex ----

\* ord(c) of an ASCII letter or digit
OrdOf ==
    [c \in DOMAIN DigitValueOf \cup DOMAIN LowerOf \cup DOMAIN UpperOf |->
        IF c \in DOMAIN DigitValueOf THEN 48 + DigitValueOf[c]
        ELSE IF c \in DOMAIN LowerOf
        THEN 64 + (CHOOSE n \in 1..26 : CharAt(UpperChars, n) = c)
        ELSE 96 + (CHOOSE n \in 1..26 : CharAt(LowerChars, n) = c)]

\* whether the character class with the given body accepts c: the body is
\* a list of single characters and ranges lo-hi
RECURSIVE ClassAccepts(_, _)
ClassAccepts(body, c) ==
    IF body = "" THEN FALSE
    ELSE IF Len(body) >= 3 /\ CharAt(body, 2) = "-"
        THEN \/ /\ c \in DOMAIN OrdOf
                /\ OrdOf[CharAt(body, 1)] <= OrdOf[c]
                /\ OrdOf[c] <= OrdOf[CharAt(body, 3)]
             \/ ClassAccepts(SubSeq(body, 4, Len(body)), c)
    ELSE c = CharAt(body, 1) \/ ClassAccepts(SubSeq(body, 2, Len(body)), c)

\* the index of the ] that closes the class opened before index k
RECURSIVE ClassEnd(_, _)
ClassEnd(regex, k) ==
    IF k > Len(regex) \/ CharAt(regex, k) = "]" THEN k ELSE ClassEnd(regex, k + 1)

\* the atom that starts at regex[k]: \d, an escaped character, a class or a
\* plain character
ClassAtom(regex, k, end) ==
    [len |-> end - k + 1, kind |-> "class", arg |-> SubSeq(regex, k + 1, end - 1)]
Atom(regex, k) ==
    IF CharAt(regex, k) = "\\" /\ k < Len(regex)
    THEN IF CharAt(regex, k + 1) = "d" THEN [len |-> 2, kind |-> "digit", arg |-> ""]
         ELSE [len |-> 2, kind |-> "char", arg |-> CharAt(regex, k + 1)]
    ELSE IF CharAt(regex, k) = "[" THEN ClassAtom(regex, k, ClassEnd(regex, k + 2))
    ELSE [len |-> 1, kind |-> "char", arg |-> CharAt(regex, k)]

\* \d accepts the decimal digits, which U+00B2 is not; of the model's
\* characters these are 0-9
AtomAccepts(a, c) ==
    CASE a.kind = "digit" -> IsDigit(c)
      [] a.kind = "class" -> ClassAccepts(a.arg, c)
      [] OTHER -> c = a.arg

\* the quantifier {n} at regex[k], if there is one
Braces(regex, k, n) ==
    IF n > 0 /\ k + n + 1 <= Len(regex) /\ CharAt(regex, k + n + 1) = "}"
    THEN [len |-> n + 2, n |-> ToInt(SubSeq(regex, k + 1, k + n))]
    ELSE [len |-> 0, n |-> 1]
Quantifier(regex, k) ==
    IF k <= Len(regex) /\ CharAt(regex, k) = "{"
    THEN Braces(regex, k, DigitRun(regex, k + 1, Len(regex)))
    ELSE [len |-> 0, n |-> 1]

\* whether regex[k:] matches s[i:]; a match may stop before the end of s
RECURSIVE Match(_, _, _, _)
RECURSIVE MatchAtom(_, _, _, _, _, _)

Match(regex, k, s, i) ==
    IF k > Len(regex) THEN TRUE
    ELSE IF CharAt(regex, k) = "^" THEN i = 1 /\ Match(regex, k + 1, s, i)
    ELSE IF CharAt(regex, k) = "$"
        THEN /\ i = Len(s) + 1 \/ (i = Len(s) /\ CharAt(s, i) = "\n")
             /\ Match(regex, k + 1, s, i)
    ELSE MatchAtom(regex, k + Atom(regex, k).len, s, i, Atom(regex, k),
                   Quantifier(regex, k + Atom(regex, k).len))

\* the atom a repeated q.n times, then the rest of the regex
MatchAtom(regex, k, s, i, a, q) ==
    /\ i + q.n - 1 <= Len(s)
    /\ \A j \in i..(i + q.n - 1) : AtomAccepts(a, CharAt(s, j))
    /\ Match(regex, k + q.len, s, i + q.n)

\* re.match(regex, s) is not None
Accepts(regex, s) == Match(regex, 1, s, 1)

\* the occurrences that qualify: non-empty strings that do not start with bp
Qualifying ==
    {n \in DOMAIN instr_values :
        /\ instr_values[n].type = "str" /\ instr_values[n].s # ""
        /\ ~StartsWith(instr_values[n].s, "bp")}

\* the per-character class sequence of a string
ClassOf(c) ==
    IF isdigit(c) THEN <<"digit", "">>
    ELSE IF isalpha(c) THEN <<"letter", "">>
    ELSE <<"literal", c>>
ClassSeq(str) == [n \in 1..Len(str) |-> ClassOf(CharAt(str, n))]

\* the occurrences with the class sequence of the string e
SameShape(e) == {n \in Qualifying : ClassSeq(instr_values[n].s) = ClassSeq(e)}

RECURSIVE SumCounts(_)
SumCounts(entries) ==
    IF entries = <<>> THEN 0 ELSE Head(entries).count + SumCounts(Tail(entries))

\* C9: the returned groups partition the qualifying occurrences by class
\* sequence: every group counts exactly the qualifying occurrences that have
\* the class sequence of its example, no two groups have the same class
\* sequence, every qualifying occurrence has the class sequence of some
\* group, and the counts sum to the number of qualifying occurrences, so
\* excluded and non-string values are counted nowhere.
C9_GroupsPartition ==
    ip_pc = "done" =>
        \A r \in {ip_result[Len(ip_result)]} :
            /\ \A k \in DOMAIN r :
                  /\ \E n \in Qualifying : instr_values[n].s = r[k].example
                  /\ r[k].count = Cardinality(SameShape(r[k].example))
            /\ \A k, l \in DOMAIN r :
                  k # l => ClassSeq(r[k].example) # ClassSeq(r[l].example)
            /\ \A n \in Qualifying : \E k \in DOMAIN r : n \in SameShape(r[k].example)
            /\ SumCounts(r) = Cardinality(Qualifying)

\* from "12", the reserved "bp12", "34" and "ab" two groups were returned,
\* the first for two different strings, and the reserved value was passed over
C9_Witness ==
    /\ ip_pc = "done"
    /\ instr_values = <<StrValue("12"), StrValue("bp12"), StrValue("34"), StrValue("ab")>>
    /\ Len(ip_result[Len(ip_result)]) = 2
    /\ ip_result[Len(ip_result)][1].count = 2
    /\ \E n, m \in Qualifying :
          /\ instr_values[n].s # instr_values[m].s
          /\ ClassSeq(instr_values[n].s) = ClassSeq(instr_values[m].s)
    /\ \E n \in DOMAIN instr_values : n \notin Qualifying

\* the strings the statement about the regex covers: digits, ASCII letters
\* and literal characters
InRegexAlphabet(str) ==
    \A n \in 1..Len(str) :
        \/ isdigit(CharAt(str, n))
        \/ CharAt(str, n) \in DOMAIN LowerOf \cup DOMAIN UpperOf
        \/ ~isalpha(CharAt(str, n))

\* C10: the regex of every returned group accepts every string assigned to
\* the group.
C10_RegexAcceptsMembers ==
    ip_pc = "done" =>
        \A g \in Range(pattern_groups) : \A r \in Range(ip_result[Len(ip_result)]) :
            r.example = g.examples[1] =>
                \A e \in Range(g.examples) : InRegexAlphabet(e) => Accepts(r.regex, e)

\* the signature of a string with every run of digits collapsed into one D
\* and every run of letters into one L
RECURSIVE CollapsedSignature(_, _)
CollapsedSignature(str, prev) ==
    IF str = "" THEN ""
    ELSE IF ClassOf(CharAt(str, 1))[1] = "digit"
        THEN (IF prev = "digit" THEN "" ELSE "D")
             \o CollapsedSignature(SubSeq(str, 2, Len(str)), "digit")
    ELSE IF ClassOf(CharAt(str, 1))[1] = "letter"
        THEN (IF prev = "letter" THEN "" ELSE "L")
             \o CollapsedSignature(SubSeq(str, 2, Len(str)), "letter")
    ELSE (IF CharAt(str, 1) \in EscapedChars THEN "\\" ELSE "") \o CharAt(str, 1)
         \o CollapsedSignature(SubSeq(str, 2, Len(str)), "literal")

\* the signature of a string with one D per digit and one L per letter
RECURSIVE PerCharacterSignature(_)
PerCharacterSignature(str) ==
    IF str = "" THEN ""
    ELSE (CASE ClassOf(CharAt(str, 1))[1] = "digit" -> "D"
            [] ClassOf(CharAt(str, 1))[1] = "letter" -> "L"
            [] OTHER -> (IF CharAt(str, 1) \in EscapedChars THEN "\\" ELSE "")
                        \o CharAt(str, 1))
         \o PerCharacterSignature(SubSeq(str, 2, Len(str)))

\* the readable signatures and counts returned, in order
Signatures(r) == [k \in DOMAIN r |-> <<r[k].pattern, r[k].count>>]

-----------------------------------------------------------------------------
(* pattern_analyzer.analyze_book_page_patterns *)

MaxBookPage == 2

\* str(v) of a field value
Str(v) == IF v.type = "NoneType" THEN "None" ELSE v.s

\* str.isdigit() of a string
IsDigitString(str) == str # "" /\ \A n \in 1..Len(str) : isdigit(CharAt(str, n))

\* a < b for two strings of letters and digits
RECURSIVE StrLess(_, _)
StrLess(a, b) ==
    IF b = "" THEN FALSE
    ELSE IF a = "" THEN TRUE
    ELSE IF CharAt(a, 1) # CharAt(b, 1) THEN OrdOf[CharAt(a, 1)] < OrdOf[CharAt(b, 1)]
    ELSE StrLess(SubSeq(a, 2, Len(a)), SubSeq(b, 2, Len(b)))

\* the key lambda x: x alone, without the length
KeyLessLexicographic(a, b) == StrLess(a, b)

\* lines 139-140: (len(a), a) < (len(b), b)
KeyLess(a, b) == Len(a) < Len(b) \/ (Len(a) = Len(b) /\ StrLess(a, b))

\* min(values, key=...): the first of the least
RECURSIVE MinByKey(_)
LesserOf(v, m) == IF KeyLess(m, v) THEN m ELSE v
MinByKey(values) ==
    IF Len(values) = 1 THEN values[1]
    ELSE LesserOf(values[1], MinByKey(Tail(values)))

\* max(values, key=...): the first of the greatest
RECURSIVE MaxByKey(_)
GreaterOf(v, m) == IF KeyLess(v, m) THEN m ELSE v
MaxByKey(values) ==
    IF Len(values) = 1 THEN values[1]
    ELSE GreaterOf(values[1], MaxByKey(Tail(values)))

\* lines 135-143 and 147-155: the characterization of one field
Characterization(field, values) ==
    [field |-> field,
     is_numeric |-> \A n \in DOMAIN values : IsDigitString(values[n]),
     has_letters |-> \E n \in DOMAIN values : ~IsDigitString(values[n]),
     min_value |-> MinByKey(values),
     max_value |-> MaxByKey(values),
     unique_count |-> Cardinality(Range(values)),
     total_count |-> Len(values)]

\* lines 132-158
BookPageResult(bs, ps) ==
    (IF bs # <<>> THEN <<Characterization("book", bs)>> ELSE <<>>)
    \o (IF ps # <<>> THEN <<Characterization("page", ps)>> ELSE <<>>)

\* analyze_county_patterns lines 315-316: [bp for bp in ... if bp.get('field') == f]
OfField(result, f) == SelectSeq(result, LAMBDA bp : bp.field = f)

\* values of the 'book' and of the 'page' field
BookValues ==
    {StrValue("9"), StrValue("10"), StrValue("100"), StrValue("9A"), StrValue(""),
     IntValue("7"), IntValue("0"), NoneValue}
PageValues == {StrValue("12"), StrValue("B2"), IntValue("0"), NoneValue}

Record(book, page) == [book |-> book, page |-> page]

\* the books 9, 10, 100 of three records without a page
OrderExample ==
    <<Record(StrValue("9"), NoneValue), Record(StrValue("10"), NoneValue),
      Record(StrValue("100"), NoneValue)>>

\* lines 123-130: one record
CollectBookPage ==
    /\ bp_pc = "collect" /\ bp_i < Len(bp_records)
    /\ books' = IF Truthy(bp_records[bp_i + 1].book)
                THEN Append(books, Str(bp_records[bp_i + 1].book)) ELSE books
    /\ pages' = IF Truthy(bp_records[bp_i + 1].page)
                THEN Append(pages, Str(bp_records[bp_i + 1].page)) ELSE pages
    /\ bp_i' = bp_i + 1
    /\ UNCHANGED <<bp_records, bp_result, bp_report, bp_pc, notBp>>

\* lines 132-158
ReturnBookPage ==
    /\ bp_pc = "collect" /\ bp_i = Len(bp_records)
    /\ bp_result' = Append(bp_result, BookPageResult(books, pages))
    /\ bp_pc' = "returned"
    /\ UNCHANGED <<bp_records, bp_i, books, pages, bp_report, notBp>>

\* analyze_county_patterns lines 312-326
WriteBookPage ==
    /\ bp_pc = "returned"
    /\ bp_report' = Append(bp_report,
          [book_patterns |-> OfField(bp_result[Len(bp_result)], "book"),
           page_patterns |-> OfField(bp_result[Len(bp_result)], "page")])
    /\ bp_pc' = "written"
    /\ UNCHANGED <<bp_records, bp_i, books, pages, bp_result, notBp>>

InitBookPageOnly ==
    /\ bp_records \in
          UNION {[1..n -> {Record(b, p) : b \in BookValues, p \in PageValues}] :
                    n \in 0..MaxBookPage}
          \cup {OrderExample}
    /\ bp_i = 0 /\ books = <<>> /\ pages = <<>>
    /\ bp_result = <<>> /\ bp_report = <<>> /\ bp_pc = "collect"

InitBookPage ==
    InitBookPageOnly /\ IdleCreate /\ IdleCascade /\ IdleStream /\ IdleDates /\ IdleInstruments
    /\ IdleCounties /\ IdleScraper

NextBookPage ==
    \/ CollectBookPage
    \/ ReturnBookPage
    \/ WriteBookPage

SpecBookPage == InitBookPage /\ [][NextBookPage]_vars

\* the values a characterization was computed from
ValuesOf(e) == IF e.field = "book" THEN books ELSE pages

\* a precedes b in the order (string length, then lexicographic)
ShorterOrLess(a, b) == Len(a) < Len(b) \/ (Len(a) = Len(b) /\ StrLess(a, b))

\* C14: min_value is a value of minimal length and lexicographically least
\* among those, max_value is a value of maximal length and lexicographically
\* greatest among those, min_value does not exceed max_value in that order,
\* and the books 9, 10, 100 give min_value 9 and max_value 100.
C14_LengthThenLexicographic ==
    bp_pc \in {"returned", "written"} =>
        \A e \in Range(bp_result[Len(bp_result)]) :
            /\ e.min_value \in Range(ValuesOf(e))
            /\ e.max_value \in Range(ValuesOf(e))
            /\ \A v \in Range(ValuesOf(e)) :
                  /\ Len(e.min_value) <= Len(v)
                  /\ Len(v) = Len(e.min_value) => ~StrLess(v, e.min_value)
                  /\ Len(v) <= Len(e.max_value)
                  /\ Len(v) = Len(e.max_value) => ~StrLess(e.max_value, v)
            /\ ~ShorterOrLess(e.max_value, e.min_value)
            /\ bp_records = OrderExample => (e.min_value = "9" /\ e.max_value = "100")

\* the books 9, 10, 100 were characterized
C14_Witness ==
    /\ bp_pc = "returned"
    /\ bp_records = OrderExample
    /\ Len(bp_result[Len(bp_result)]) = 1
    /\ bp_result[Len(bp_result)][1].min_value = "9"

\* C15: in the report of a county book_patterns and page_patterns are each
\* a list of exactly one characterization, whatever the records carry.
C15_SingleElementLists ==
    (bp_pc = "written" /\ bp_records # <<>>) =>
        /\ Len(bp_report[Len(bp_report)].book_patterns) = 1
        /\ Len(bp_report[Len(bp_report)].page_patterns) = 1

-----------------------------------------------------------------------------
(* Claims C16-C20 *)

\* the mapping the rule-based cascade alone gives the records: a function of
\* the records, whatever sample was drawn
CascadeMapping(recs) == [dt \in Range(CounterKeys(recs)) |-> ClassifyOne(dt)]

\* C16: with use_llm false create_mapping classifies the sample by the
\* rule-based cascade and completes over all values, so the written mapping
\* gives every distinct doc_type value exactly the cascade's category: it is
\* determined by the records alone, and two runs that draw different random
\* samples write the same mapping.
C16_RuleBasedIndependentOfSample ==
    (pc = "done" /\ ~use_llm) => Written = CascadeMapping(records)

\* C16 witness: a finished rule-based run whose records allowed more than one
\* sample, with a value the drawn sample left out and the completion pass
\* labelled by a rule (not by the MISC default)
C16_Witness ==
    /\ pc = "done" /\ ~use_llm
    /\ Cardinality(SampleResults(records)) > 1
    /\ \E v \in PresentDocTypes \ Range(sampled) :
          Written[v] = ClassifyOne(v) /\ Written[v] # "MISC"

\* the position of the first record that carries v
FirstOccurrence(recs, v) ==
    CHOOSE i \in DOMAIN recs : recs[i] = v /\ \A j \in 1..(i - 1) : recs[j] # v

\* v comes before w by frequency, ties by first occurrence
MoreFrequent(recs, v, w) ==
    \/ CounterValue(recs, v) > CounterValue(recs, w)
    \/ /\ CounterValue(recs, v) = CounterValue(recs, w)
       /\ FirstOccurrence(recs, v) < FirstOccurrence(recs, w)

NoDuplicates(s) == \A i, j \in DOMAIN s : i # j => s[i] # s[j]

\* s holds sample_size distinct present values: the top_n most frequent ones
\* in order, then values of the rest
TopThenDrawn(recs, s) ==
    /\ Len(s) = sample_size
    /\ NoDuplicates(s)
    /\ Range(s) \subseteq PresentDocTypes
    /\ \A i \in 1..top_n :
          \A v \in PresentDocTypes \ {s[j] : j \in 1..i} : MoreFrequent(recs, s[i], v)

\* s holds every present value once
AllDistinct(s) == NoDuplicates(s) /\ Range(s) = PresentDocTypes

\* C17 as stated: below the threshold the sample is all distinct values;
\* with threshold-many or more it is the most frequent values followed by
\* drawn ones. (The original statement, refuted at exactly threshold-many
\* distinct values.)
C17_AllBelowThreshold ==
    pc # "start" =>
        IF Cardinality(PresentDocTypes) < sample_size
        THEN AllDistinct(sampled)
        ELSE TopThenDrawn(records, sampled)

\* C17 (amended): with at most threshold-many distinct values the sample is
\* all of them, each once, in first-occurrence order; with more it is exactly
\* threshold-many values without duplicates, the top_n most frequent ones
\* (ties in first-occurrence order) followed by values drawn from the rest;
\* every sampled value occurs in the records.
C17_AllUpToThreshold ==
    pc # "start" =>
        IF Cardinality(PresentDocTypes) <= sample_size
        THEN /\ AllDistinct(sampled)
             /\ \A i, j \in DOMAIN sampled :
                   i < j => FirstOccurrence(records, sampled[i])
                              < FirstOccurrence(records, sampled[j])
        ELSE TopThenDrawn(records, sampled)

\* C17 witness: more distinct values than the threshold, the most frequent one
\* is not the first to occur, and the drawn value is not the next to occur
C17_Witness ==
    /\ pc = "sampled"
    /\ Cardinality(PresentDocTypes) > sample_size
    /\ Len(sampled) = sample_size
    /\ FirstOccurrence(records, sampled[1]) > 1
    /\ \E v \in PresentDocTypes \ Range(sampled) :
          FirstOccurrence(records, v) < FirstOccurrence(records, sampled[sample_size])

\* the characters that are regex metacharacters
Metacharacters ==
    {".", "^", "$", "*", "+", "?", "{", "}", "[", "]", "\\", "|", "(", ")"}

\* the length of the run of characters of class cls that str begins with
RECURSIVE LeadingRun(_, _)
LeadingRun(str, cls) ==
    IF str = "" \/ ClassOf(CharAt(str, 1))[1] # cls THEN 0
    ELSE 1 + LeadingRun(SubSeq(str, 2, Len(str)), cls)

\* every maximal digit run of str as \d{n}, every maximal letter run as
\* [A-Za-z]{n}, metacharacters escaped, other literals as the code writes them
RECURSIVE QuantifiedRuns(_)
RunClass(str, tok, n) ==
    tok \o "{" \o Pad(n, 1) \o "}" \o QuantifiedRuns(SubSeq(str, n + 1, Len(str)))
QuantifiedRuns(str) ==
    IF str = "" THEN ""
    ELSE IF isdigit(CharAt(str, 1)) THEN RunClass(str, "\\d", LeadingRun(str, "digit"))
    ELSE IF isalpha(CharAt(str, 1)) THEN RunClass(str, "[A-Za-z]", LeadingRun(str, "letter"))
    ELSE (IF CharAt(str, 1) \in Metacharacters THEN "\\" \o CharAt(str, 1)
          ELSE PatternPart(CharAt(str, 1)))
         \o QuantifiedRuns(SubSeq(str, 2, Len(str)))

\* C18: in the regex of every returned group each maximal run of n digits is
\* the single class \d{n}, each maximal run of n letters the single class
\* [A-Za-z]{n}, wherever the run is, and every literal metacharacter is
\* escaped.
C18_RunsQuantified ==
    ip_pc = "done" =>
        \A r \in {ip_result[Len(ip_result)]} :
            \A k \in DOMAIN r :
                r[k].regex = "^" \o QuantifiedRuns(r[k].example) \o "$"

\* the strings assigned to the group of entry e
Members(e) == {instr_values[n].s : n \in SameShape(e.example)}

\* C19: whenever two or more groups are returned, the regex of each group
\* rejects at least one string assigned to another group.
C19_RejectsOtherShapes ==
    ip_pc = "done" =>
        \A r \in {ip_result[Len(ip_result)]} :
            Len(r) >= 2 =>
                \A k \in DOMAIN r :
                    \E l \in DOMAIN r \ {k} :
                        \E str \in Members(r[l]) : ~Accepts(r[k].regex, str)

\* the first qualifying occurrence with the class sequence of the string e
FirstOfShape(e) ==
    CHOOSE n \in SameShape(e) : \A m \in SameShape(e) : n <= m

\* C20: the returned list is in non-increasing order of count, groups of
\* equal count are in the order in which their shapes first occur in the
\* records, and the example of each group is the first string of its shape.
C20_CountOrderStable ==
    ip_pc = "done" =>
        \A r \in {ip_result[Len(ip_result)]} :
            /\ \A k, l \in DOMAIN r :
                  k < l =>
                     /\ r[k].count >= r[l].count
                     /\ r[k].count = r[l].count =>
                           FirstOfShape(r[k].example) < FirstOfShape(r[l].example)
            /\ \A k \in DOMAIN r :
                  r[k].example = instr_values[FirstOfShape(r[k].example)].s

\* C20 witness: from "ab", "12", "34", "A-1" the digit group, found second,
\* comes first with example "12"; the two groups of count 1 follow in the
\* order they were found
C20_Witness ==
    /\ ip_pc = "done"
    /\ instr_values = <<StrValue("ab"), StrValue("12"), StrValue("34"), StrValue("A-1")>>
    /\ Len(ip_result[Len(ip_result)]) = 3
    /\ ip_result[Len(ip_result)][1].example = "12"
    /\ ip_result[Len(ip_result)][1].count = 2
    /\ ip_result[Len(ip_result)][2].example = "ab"
    /\ ip_result[Len(ip_result)][3].example = "A-1"
    /\ ip_result[Len(ip_result)][2].count = ip_result[Len(ip_result)][3].count

-----------------------------------------------------------------------------
(* Claims C21-C25 *)

\* the sum of the reported percentages, in hundredths of a percent
RECURSIVE SumPercentages(_)
SumPercentages(entries) ==
    IF entries = <<>> THEN 0
    ELSE Head(entries).percentage + SumPercentages(Tail(entries))

\* C21: for every input the percentages reported by
\* analyze_instrument_patterns (count over the number of non-excluded
\* instrument numbers, times 100, rounded to 2 decimals) sum to at most 100.
C21_PercentagesAtMost100 ==
    ip_pc = "done" => SumPercentages(ip_result[Len(ip_result)]) <= 10000

\* lines 123-130 over a whole record list: str() of the truthy values of field
RECURSIVE Collected(_, _)
Collected(recs, field) ==
    IF recs = <<>> THEN <<>>
    ELSE (IF Truthy(Head(recs)[field]) THEN <<Str(Head(recs)[field])>> ELSE <<>>)
         \o Collected(Tail(recs), field)

\* analyze_book_page_patterns(recs)
AnalyzeBookPage(recs) ==
    BookPageResult(Collected(recs, "book"), Collected(recs, "page"))

\* the records with every numeric book or page value v replaced by str(v)
AsString(v) == IF v.type = "int" THEN StrValue(Str(v)) ELSE v
Stringified(recs) ==
    [n \in DOMAIN recs |-> Record(AsString(recs[n].book), AsString(recs[n].page))]

\* C22: a numeric field value and its string form classify identically:
\* replacing every numeric book or page value v (0 included) by str(v) leaves
\* the returned characterizations unchanged.
C22_NumericAndStringAlike ==
    bp_pc \in {"returned", "written"} =>
        /\ bp_result[Len(bp_result)] = AnalyzeBookPage(bp_records)
        /\ AnalyzeBookPage(Stringified(bp_records)) = bp_result[Len(bp_result)]

\* the dates that parsed: what parse_date returned, read back as a datetime
ParsedCalls ==
    {n \in DOMAIN calls :
        /\ calls[n].exc = "" /\ calls[n].ret # None
        /\ FromIsoOf[calls[n].ret].ok}
ParsedDates == {FromIsoOf[calls[n].ret].dt : n \in ParsedCalls}

\* the parsed dates that got a future_date or very_old_date anomaly
FlaggedDates ==
    {d \in ParsedDates : Flagged(d, "future_date") \/ Flagged(d, "very_old_date")}

\* r.earliest is the least and r.latest the greatest of the non-empty set
\* of dates pd, and both are None when pd is empty
RangeOver(r, pd) ==
    /\ (r.earliest = None) <=> (pd = {})
    /\ (r.latest = None) <=> (pd = {})
    /\ pd # {} =>
          \E d, e \in pd :
              /\ r.earliest = isoformat(d) /\ \A x \in pd : ~Before(x, d)
              /\ r.latest = isoformat(e) /\ \A x \in pd : ~Before(e, x)
              /\ ~Before(e, d)

\* C23: anomalies are advisory: in the returned dict earliest is the minimum
\* and latest the maximum over all successfully parsed dates, the flagged
\* ones included; earliest does not exceed latest; and both are None exactly
\* when no date parsed.
C23_AnomaliesAdvisory ==
    dr_pc = "returned" =>
        \A pd \in {ParsedDates} :
            /\ \A d \in pd :
                  (Flagged(d, "future_date") \/ Flagged(d, "very_old_date"))
                      => d \in Range(dates)
            /\ RangeOver(dr_result[Len(dr_result)], pd)

\* C23 witness: from a date of 1799 and a date 2 days ahead, both flagged,
\* the returned range starts at the first and ends at the second
C23_Witness ==
    /\ dr_pc = "returned"
    /\ date_values = <<StrValue("2024-03-12T12:00:01"), StrValue("1799-12-31")>>
    /\ \E d \in FlaggedDates : Flagged(d, "very_old_date")
                                  /\ dr_result[Len(dr_result)].earliest = isoformat(d)
    /\ \E d \in FlaggedDates : Flagged(d, "future_date")
                                  /\ dr_result[Len(dr_result)].latest = isoformat(d)

-----------------------------------------------------------------------------
(* pattern_analyzer.analyze_county_patterns *)

MaxCountyRecords == 3

\* values of the 'county' field, and of the 'book' and 'date' fields of the
\* records of the aggregation
CountyValues == {StrValue("wake"), StrValue("polk"), StrValue(""), NoneValue}
CountyBookValues == {StrValue("9"), NoneValue}
CountyDateValues == {StrValue("1799-12-31"), StrValue("2020-01-15T10:30:00Z"), NoneValue}

CountyRecord(county, book, date) ==
    [county |-> county, book |-> book, page |-> NoneValue, date |-> date]

\* lines 296-298: county_records[county].append(record)
AddToBucket(buckets, county, record) ==
    IF \E k \in DOMAIN buckets : buckets[k].county = county
    THEN [k \in DOMAIN buckets |->
            IF buckets[k].county = county
            THEN [buckets[k] EXCEPT !.records = Append(@, record)]
            ELSE buckets[k]]
    ELSE Append(buckets, [county |-> county, records |-> <<record>>])

\* analyze_date_ranges on one record's date when parse_date ended as r:
\* parse_date raised, or the date is timezone-aware and `dt > today` raises
\* (line 192)
DateOutcomeRaises(r) ==
    \/ r.exc # ""
    \/ /\ r.ret # None
       /\ FromIsoOf[r.ret].ok
       /\ ~Comparable(FromIsoOf[r.ret].dt, Now)

\* analyze_date_ranges(records) raises: some record's date does
DateRangesRaise(recs, fb) ==
    \E n \in DOMAIN recs :
        Truthy(recs[n].date) /\ DateOutcomeRaises(ParseDateOf[recs[n].date][fb])

\* lines 312-320: the summary of a county, as far as it is modelled; every
\* field of it is computed from the county's own list of records
Summary(recs) ==
    [record_count |-> Len(recs),
     book_patterns |-> OfField(AnalyzeBookPage(recs), "book"),
     page_patterns |-> OfField(AnalyzeBookPage(recs), "page")]

\* lines 294-298: one record of the stream
BucketRecord ==
    /\ cp_pc = "bucket" /\ cp_i < Len(cp_records)
    /\ county_records' =
          IF Truthy(cp_records[cp_i + 1].county)
          THEN AddToBucket(county_records, cp_records[cp_i + 1].county.s, cp_records[cp_i + 1])
          ELSE county_records
    /\ cp_i' = cp_i + 1
    /\ UNCHANGED <<cp_records, results, cp_output, cp_exc, cp_pc, notCp>>

\* lines 300-302: the stream has ended
StartAnalysis ==
    /\ cp_pc = "bucket" /\ cp_i = Len(cp_records)
    /\ cp_i' = 0
    /\ cp_pc' = "analyze"
    /\ UNCHANGED <<cp_records, county_records, results, cp_output, cp_exc, notCp>>

\* lines 304-320: the next county's analyses return and its summary is stored
AnalyzeCounty ==
    /\ cp_pc = "analyze" /\ cp_i < Len(county_records)
    /\ \E fb \in FallbackOutcomes : ~DateRangesRaise(county_records[cp_i + 1].records, fb)
    /\ results' = Append(results,
          [county |-> county_records[cp_i + 1].county,
           summary |-> Summary(county_records[cp_i + 1].records)])
    /\ cp_i' = cp_i + 1
    /\ UNCHANGED <<cp_records, county_records, cp_output, cp_exc, cp_pc, notCp>>

\* line 309: analyze_date_ranges raises for the next county; nothing in
\* analyze_county_patterns catches it, so no county's summary is written
AnalyzeCountyRaises ==
    /\ cp_pc = "analyze" /\ cp_i < Len(county_records)
    /\ \E fb \in FallbackOutcomes : DateRangesRaise(county_records[cp_i + 1].records, fb)
    /\ cp_exc' = "TypeError"
    /\ cp_pc' = "raised"
    /\ UNCHANGED <<cp_records, cp_i, county_records, results, cp_output, notCp>>

\* lines 322-326: json.dump(results)
WriteResults ==
    /\ cp_pc = "analyze" /\ cp_i = Len(county_records)
    /\ cp_output' = <<results>>
    /\ cp_pc' = "written"
    /\ UNCHANGED <<cp_records, cp_i, county_records, results, cp_exc, notCp>>

InitCountiesOnly ==
    /\ cp_records \in
          UNION {[1..n -> {CountyRecord(c, b, d) :
                              c \in CountyValues, b \in CountyBookValues,
                              d \in CountyDateValues}] :
                    n \in 0..MaxCountyRecords}
    /\ cp_i = 0 /\ county_records = <<>> /\ results = <<>>
    /\ cp_output = <<>> /\ cp_exc = "" /\ cp_pc = "bucket"

InitCounties ==
    InitCountiesOnly /\ IdleCreate /\ IdleCascade /\ IdleStream /\ IdleDates
    /\ IdleInstruments /\ IdleBookPage /\ IdleScraper

NextCounties ==
    \/ BucketRecord
    \/ StartAnalysis
    \/ AnalyzeCounty
    \/ AnalyzeCountyRaises
    \/ WriteResults

SpecCounties == InitCounties /\ [][NextCounties]_vars

\* the records of county c, in the order of the stream
OwnRecords(c) ==
    SelectSeq(cp_records, LAMBDA rec : Truthy(rec.county) /\ rec.county.s = c)

\* the counties that occur in the stream
Counties == {cp_records[n].county.s : n \in {n \in DOMAIN cp_records :
                                                Truthy(cp_records[n].county)}}

\* the summaries of county c in what was written
WrittenSummaries(c) ==
    IF cp_output = <<>> THEN {}
    ELSE {cp_output[1][k].summary : k \in {k \in DOMAIN cp_output[1] :
                                              cp_output[1][k].county = c}}

RECURSIVE SumRecordCounts(_)
SumRecordCounts(res) ==
    IF res = <<>> THEN 0
    ELSE Head(res).summary.record_count + SumRecordCounts(Tail(res))

\* C24: per-county aggregation has no cross-county interaction: once the run
\* has ended, every county whose own records can be analyzed has exactly the
\* summary of its own records, whatever the records of the other counties
\* are; only counties of the stream have a summary; and the record counts
\* sum to the number of records with a non-empty county.
C24_NoCrossCountyInteraction ==
    cp_pc \in {"written", "raised"} =>
        /\ \A c \in Counties :
              (\A fb \in FallbackOutcomes : ~DateRangesRaise(OwnRecords(c), fb))
                  => WrittenSummaries(c) = {Summary(OwnRecords(c))}
        /\ cp_output # <<>> =>
              /\ \A k \in DOMAIN cp_output[1] : cp_output[1][k].county \in Counties
              /\ SumRecordCounts(cp_output[1])
                    = Cardinality({n \in DOMAIN cp_records : Truthy(cp_records[n].county)})

-----------------------------------------------------------------------------
(* seminole_scraper.SeminoleScraper.search_by_name *)

MaxRetries == 3

\* the exceptions an attempt can end with, by the handler that catches them
\* (lines 138, 144, 150): Timeout is tried before its base RequestException
AttemptFailures == {"Timeout", "RequestException", "Exception"}

\* the record lists a response can be parsed into, and how it was parsed
\* (lines 124-131): as JSON, or as HTML when response.json() raises ValueError
ParsedRecords == {<<>>, <<"r1">>, <<"r1", "r2">>}
ResponseKinds == {"json", "html"}

Succeeded(via, recs) == [kind |-> "ok", via |-> via, records |-> recs]
Failed(e) == [kind |-> e, via |-> "", records |-> <<>>]

\* the test of lines 140, 146 and 152 with attempt == max_retries
LastAttemptOffByOne(a, n) == a = n

\* lines 140, 146, 152: attempt == max_retries - 1
LastAttempt(a, n) == a = n - 1

\* lines 61-136: the attempt succeeds and its records are returned
AttemptSucceeds ==
    /\ sb_pc = "loop" /\ attempt < max_retries
    /\ \E via \in ResponseKinds, recs \in ParsedRecords :
          /\ attempts' = Append(attempts, Succeeded(via, recs))
          /\ sb_result' = <<recs>>
    /\ sb_pc' = "returned"
    /\ UNCHANGED <<max_retries, attempt, sb_exc, notSb>>

\* lines 138-154: the attempt fails and is not the last; after the sleep the
\* loop goes on
AttemptFailsRetry ==
    /\ sb_pc = "loop" /\ attempt < max_retries
    /\ ~LastAttempt(attempt, max_retries)
    /\ \E e \in AttemptFailures : attempts' = Append(attempts, Failed(e))
    /\ attempt' = attempt + 1
    /\ UNCHANGED <<max_retries, sb_result, sb_exc, sb_pc, notSb>>

\* lines 138-153: the last attempt fails and its exception is raised again
AttemptFailsLast ==
    /\ sb_pc = "loop" /\ attempt < max_retries
    /\ LastAttempt(attempt, max_retries)
    /\ \E e \in AttemptFailures :
          /\ attempts' = Append(attempts, Failed(e))
          /\ sb_exc' = e
    /\ sb_pc' = "raised"
    /\ UNCHANGED <<max_retries, attempt, sb_result, notSb>>

\* line 156: range(max_retries) is exhausted
LoopExhausted ==
    /\ sb_pc = "loop" /\ attempt >= max_retries
    /\ sb_result' = << <<>> >>
    /\ sb_pc' = "returned"
    /\ UNCHANGED <<max_retries, attempt, attempts, sb_exc, notSb>>

InitScraperOnly ==
    /\ max_retries \in -1..MaxRetries
    /\ attempt = 0 /\ attempts = <<>>
    /\ sb_result = <<>> /\ sb_exc = "" /\ sb_pc = "loop"

InitScraper ==
    InitScraperOnly /\ IdleCreate /\ IdleCascade /\ IdleStream /\ IdleDates
    /\ IdleInstruments /\ IdleBookPage /\ IdleCounties

NextScraper ==
    \/ AttemptSucceeds
    \/ AttemptFailsRetry
    \/ AttemptFailsLast
    \/ LoopExhausted

\* the call keeps running: every statement of the loop completes (requests
\* have a timeout of 120 s, line 121, and the sleeps are finite)
SpecScraper == InitScraper /\ [][NextScraper]_vars /\ WF_vars(NextScraper)

\* every attempt of the sequence s failed
AllFailed(s) == \A n \in DOMAIN s : s[n].kind \in AttemptFailures

\* what holds of the attempts made so far at every point of the call
BoundedRetry ==
    /\ max_retries > 0 => Len(attempts) <= max_retries
    /\ max_retries <= 0 => attempts = <<>>
    /\ sb_pc = "loop" =>
          /\ AllFailed(attempts) /\ attempt = Len(attempts)
          /\ sb_result = <<>> /\ sb_exc = ""
          /\ attempts # <<>> => Len(attempts) < max_retries
    /\ sb_pc = "returned" =>
          /\ Len(sb_result) = 1 /\ sb_exc = ""
          /\ \/ /\ attempts # <<>>
                /\ attempts[Len(attempts)].kind = "ok"
                /\ AllFailed(SubSeq(attempts, 1, Len(attempts) - 1))
                /\ sb_result[1] = attempts[Len(attempts)].records
             \/ /\ attempts = <<>> /\ max_retries <= 0
                /\ sb_result[1] = <<>>
    /\ sb_pc = "raised" =>
          /\ sb_result = <<>>
          /\ Len(attempts) = max_retries /\ AllFailed(attempts)
          /\ sb_exc = attempts[Len(attempts)].kind

\* C25: search_by_name makes at most max_retries attempts and always
\* terminates; it returns the records of the first attempt that succeeds and
\* makes no further attempt; a failed attempt that is not the last is
\* followed by one more; when the last attempt fails its exception is raised
\* and nothing is returned; the empty list is returned without any attempt
\* only when max_retries is 0 or less.
C25_BoundedRetryTerminates ==
    /\ []BoundedRetry
    /\ [][(sb_pc \in {"returned", "raised"}) => (sbVars' = sbVars)]_vars
    /\ <>(sb_pc \in {"returned", "raised"})

\* C25 witness: with max_retries 3 two attempts failed and the third one
\* succeeded, returning its records
C25_Witness ==
    /\ sb_pc = "returned" /\ max_retries = 3
    /\ Len(attempts) = 3
    /\ attempts[1].kind = "Timeout" /\ attempts[2].kind = "Exception"
    /\ attempts[3].kind = "ok"
    /\ sb_result = << <<"r1", "r2">> >>

====
